---- MODULE Spec2Model ----
(***************************************************************************)
(* Bidding-strategy validation, mutation construction, the Google Ads      *)
(* updater tools and their dry-run shadows, and the process-wide action    *)
(* log of agentic_dsta.                                                    *)
(*                                                                         *)
(* A behaviour is one pending tool request (drawn in Init together with    *)
(* the backend environment it meets) that is executed by the real tool     *)
(* and/or by its dry-run counterpart; the action log persists across the   *)
(* calls until clear_actions.                                              *)
(*                                                                         *)
(* LoggerSpec is the action logger called directly by concurrent threads:  *)
(* each call of log_action, get_actions and clear_actions is the call, the *)
(* body run under _lock, and the return.                                   *)
(*                                                                         *)
(* DecisionSpec is one invocation of run_decision_agent, step by step; the *)
(* LLM agent of a campaign is modelled by its outcome (it completes or     *)
(* raises) and by the one tool of its toolset it calls, if any.            *)
(*                                                                         *)
(* OverlapSpec is two invocations of run_decision_agent interleaved at     *)
(* their await points over the one shared action list.                     *)
(*                                                                         *)
(* Python values are modelled as follows.  None of an Optional is the      *)
(* empty sequence <<>> and a present value v is <<v>>.  A dict is a        *)
(* function over its keys.  An f-string is the tuple of its pieces.  The   *)
(* wall-clock timestamp of an action record is not modelled.               *)
(***************************************************************************)
EXTENDS Integers, Sequences, FiniteSets, TLC

VARIABLES req, env, actions, last, pc, lock, local, done, started,
          args, runlog, frame, trail, runs

\* the state of the threads that call the action logger directly
loggerVars == <<pc, lock, local, done, started>>

\* one invocation of run_decision_agent: its arguments, the run-log store,
\* its local variables and position, and the steps it has taken
agentVars == <<args, runlog, frame, trail>>

\* the invocations of run_decision_agent that overlap in one process, by
\* customer
overlapVars == <<runs>>

vars == <<req, env, actions, last, pc, lock, local, done, started,
          args, runlog, frame, trail, runs>>

(***************************************************************************)
(* Bounds                                                                  *)
(***************************************************************************)
MaxDetailKeys == 3
MaxActions == 2
MaxThreads == 2
MaxCalls == 4
MaxCampaigns == 3

(***************************************************************************)
(* Strings.  The strategy and channel strings the model draws, and         *)
(* str.upper() on them.                                                    *)
(***************************************************************************)
PortfolioRef == "customers/1/biddingStrategies/9"

UpperStrategies ==
  { "MAXIMIZE_CONVERSIONS", "MAXIMIZE_CONVERSION_VALUE", "TARGET_SPEND",
    "MANUAL_CPC", "TARGET_IMPRESSION_SHARE", "MANUAL_CPM", "MANUAL_CPV",
    "PERCENT_CPC", "COMMISSION", "TARGET_CPA", "TARGET_ROAS",
    "TARGET_CPM", "TARGET_CPV" }

StrategyInputs ==
  UpperStrategies \cup { "maximize_conversions", "Manual_Cpc", PortfolioRef }

ChannelInputs ==
  { "PERFORMANCE_MAX", "SEARCH", "DISPLAY", "VIDEO", "HOTEL",
    "search", "SHOPPING" }

LocationInputs == { "TOP_OF_PAGE", "top_of_page", "INVALID", "UNSPECIFIED" }

upper(s) ==
  CASE s = "maximize_conversions" -> "MAXIMIZE_CONVERSIONS"
    [] s = "Manual_Cpc" -> "MANUAL_CPC"
    [] s = "search" -> "SEARCH"
    [] s = "top_of_page" -> "TOP_OF_PAGE"
    [] s = PortfolioRef -> "CUSTOMERS/1/BIDDINGSTRATEGIES/9"
    [] OTHER -> s

\* resource names: "customers/<customer>/<collection>/<id>"
CustomerIds == { "1", "2", "12" }

Collections == { "biddingStrategies", "campaignBudgets", "campaigns" }

ResourceIds == { "7", "9" }

\* datetime.utcnow().timestamp() at the start of a run
RunStamp == "1762265000.5"

\* the strings that can follow a prefix the code tests for
StringTails ==
  ResourceIds
    \cup { RunStamp }
    \cup { cid \o "/" \o coll \o "/" \o id :
             cid \in CustomerIds, coll \in Collections, id \in ResourceIds }

\* str.startswith: s is the prefix followed by some tail
startswith(s, prefix) == \E t \in StringTails : s = prefix \o t

\* str.isdigit
isdigit(s) == s \in { "2840", "2826" }

(***************************************************************************)
(* Strategy compatibility table                                            *)
(***************************************************************************)
ALLOWED_STRATEGIES ==
  [ PERFORMANCE_MAX |-> << "MAXIMIZE_CONVERSIONS", "MAXIMIZE_CONVERSION_VALUE" >>,
    SEARCH |-> << "MANUAL_CPC", "TARGET_SPEND", "MAXIMIZE_CONVERSIONS",
                  "MAXIMIZE_CONVERSION_VALUE", "TARGET_IMPRESSION_SHARE" >>,
    DISPLAY |-> << "MANUAL_CPC", "MANUAL_CPM", "TARGET_CPM",
                   "MAXIMIZE_CONVERSIONS", "MAXIMIZE_CONVERSION_VALUE" >>,
    VIDEO |-> << "MANUAL_CPV", "TARGET_CPV", "TARGET_CPM",
                 "MAXIMIZE_CONVERSIONS" >>,
    HOTEL |-> << "MANUAL_CPC", "PERCENT_CPC", "COMMISSION" >> ]

PROHIBITED_STRATEGIES ==
  [ PERFORMANCE_MAX |-> << "MANUAL_CPC", "TARGET_IMPRESSION_SHARE",
                           "TARGET_SPEND", "MANUAL_CPM", "MANUAL_CPV",
                           "PERCENT_CPC", "COMMISSION" >>,
    SEARCH |-> << "MANUAL_CPM", "COMMISSION", "MANUAL_CPV", "PERCENT_CPC" >>,
    DISPLAY |-> << "TARGET_IMPRESSION_SHARE", "COMMISSION", "MANUAL_CPV",
                   "PERCENT_CPC" >>,
    VIDEO |-> << "MANUAL_CPC", "TARGET_IMPRESSION_SHARE",
                 "MAXIMIZE_CONVERSION_VALUE", "TARGET_ROAS", "TARGET_SPEND",
                 "PERCENT_CPC", "COMMISSION" >>,
    HOTEL |-> << "TARGET_IMPRESSION_SHARE", "MANUAL_CPM", "TARGET_CPM",
                 "MAXIMIZE_CONVERSIONS", "MAXIMIZE_CONVERSION_VALUE",
                 "TARGET_CPA", "TARGET_ROAS", "TARGET_SPEND", "MANUAL_CPV" >> ]

\* x in list
InList(x, list) == \E i \in 1..Len(list) : list[i] = x

\* validate_strategy_change comparing the raw strings, without upper()
validate_strategy_change_raw(channel_type, target_strategy) ==
  LET ch == channel_type
      st == target_strategy
  IN  IF ch \notin DOMAIN ALLOWED_STRATEGIES THEN FALSE
      ELSE IF ~InList(st, ALLOWED_STRATEGIES[ch]) THEN FALSE
      ELSE IF ch \in DOMAIN PROHIBITED_STRATEGIES
              /\ InList(st, PROHIBITED_STRATEGIES[ch]) THEN FALSE
      ELSE TRUE

validate_strategy_change(channel_type, target_strategy) ==
  LET ch == upper(channel_type)
      st == upper(target_strategy)
  IN  IF ch \notin DOMAIN ALLOWED_STRATEGIES THEN FALSE
      ELSE IF ~InList(st, ALLOWED_STRATEGIES[ch]) THEN FALSE
      ELSE IF ch \in DOMAIN PROHIBITED_STRATEGIES
              /\ InList(st, PROHIBITED_STRATEGIES[ch]) THEN FALSE
      ELSE TRUE

(***************************************************************************)
(* Mutation objects.  A target (Campaign or BiddingStrategy message) is    *)
(* recorded by the union variants the call touched (`active`), the         *)
(* sub-fields of variants it assigned (`sub`, keyed by <<variant, field>>) *)
(* and the top-level fields it assigned (`top`).                           *)
(***************************************************************************)
FreshTarget(resource_name) ==
  [ resource_name |-> resource_name, active |-> {}, sub |-> <<>>, top |-> <<>> ]

\* strategy_obj.<variant>            (attribute access: "Activate oneof")
Activate(obj, variant) == [obj EXCEPT !.active = @ \cup {variant}]

\* strategy_obj.<variant>.<field> = value
SetSub(obj, variant, field, value) ==
  [obj EXCEPT !.active = @ \cup {variant},
              !.sub = (<<variant, field>> :> value) @@ @]

\* obj.<field> = value
SetTop(obj, field, value) == [obj EXCEPT !.top = (field :> value) @@ @]

\* strategy_details and key in strategy_details
HasDetail(strategy_details, key) ==
  /\ Len(strategy_details) = 1
  /\ DOMAIN strategy_details[1] # {}
  /\ key \in DOMAIN strategy_details[1]

\* the members of TargetImpressionShareLocationEnum.TargetImpressionShareLocation
TargetImpressionShareLocation ==
  { "UNSPECIFIED", "UNKNOWN", "ANYWHERE_ON_PAGE", "TOP_OF_PAGE",
    "ABSOLUTE_TOP_OF_PAGE" }

\* the (return value, target, field-mask accumulator) a builder leaves
Built(ret, obj, paths) == [ ret |-> ret, obj |-> obj, paths |-> paths ]

_apply_maximize_conversions(obj, paths, details) ==
  LET o1 == Activate(obj, "maximize_conversions")
      o2 == IF HasDetail(details, "target_cpa_micros")
              THEN SetSub(o1, "maximize_conversions", "target_cpa_micros",
                          details[1]["target_cpa_micros"])
              ELSE o1
  IN  Built(TRUE, o2, Append(paths, "maximize_conversions.target_cpa_micros"))

_apply_maximize_conversion_value(obj, paths, details) ==
  LET o1 == Activate(obj, "maximize_conversion_value")
      o2 == IF HasDetail(details, "target_roas")
              THEN SetSub(o1, "maximize_conversion_value", "target_roas",
                          details[1]["target_roas"])
              ELSE o1
  IN  Built(TRUE, o2, Append(paths, "maximize_conversion_value.target_roas"))

_apply_target_spend(obj, paths, details) ==
  LET o1 == Activate(obj, "target_spend")
      o2 == IF HasDetail(details, "cpc_bid_ceiling_micros")
              THEN SetSub(o1, "target_spend", "cpc_bid_ceiling_micros",
                          details[1]["cpc_bid_ceiling_micros"])
              ELSE o1
  IN  Built(TRUE, o2, Append(paths, "target_spend.cpc_bid_ceiling_micros"))

_apply_manual_cpc(obj, paths, details) ==
  LET o1 == Activate(obj, "manual_cpc")
      o2 == IF HasDetail(details, "enhanced_cpc_enabled")
              THEN SetSub(o1, "manual_cpc", "enhanced_cpc_enabled",
                          details[1]["enhanced_cpc_enabled"])
              ELSE o1
  IN  Built(TRUE, o2, Append(paths, "manual_cpc.enhanced_cpc_enabled"))

\* _apply_target_impression_share storing the location string and recording
\* its path before the enum lookup
_apply_target_impression_share_store_first(obj, paths, details) ==
  IF \/ Len(details) = 0
     \/ DOMAIN details[1] = {}
     \/ "location" \notin DOMAIN details[1]
     \/ "location_fraction_micros" \notin DOMAIN details[1]
  THEN Built(FALSE, obj, paths)
  ELSE
    LET d == details[1]
        location_str == upper(d["location"])
        o2 == SetSub(obj, "target_impression_share", "location", location_str)
        p2 == Append(paths, "target_impression_share.location")
    IN  IF location_str \notin TargetImpressionShareLocation
        THEN Built(FALSE, o2, p2)
        ELSE
          LET o3 == SetSub(o2, "target_impression_share",
                           "location_fraction_micros",
                           d["location_fraction_micros"])
              p3 == Append(p2,
                      "target_impression_share.location_fraction_micros")
          IN  IF "cpc_bid_ceiling_micros" \in DOMAIN d
              THEN Built(TRUE,
                         SetSub(o3, "target_impression_share",
                                "cpc_bid_ceiling_micros",
                                d["cpc_bid_ceiling_micros"]),
                         Append(p3,
                           "target_impression_share.cpc_bid_ceiling_micros"))
              ELSE Built(TRUE, o3, p3)

_apply_target_impression_share(obj, paths, details) ==
  IF \/ Len(details) = 0
     \/ DOMAIN details[1] = {}
     \/ "location" \notin DOMAIN details[1]
     \/ "location_fraction_micros" \notin DOMAIN details[1]
  THEN Built(FALSE, obj, paths)
  ELSE
    LET d == details[1]
        o1 == Activate(obj, "target_impression_share")
        location_str == upper(d["location"])
    IN  IF location_str \notin TargetImpressionShareLocation
        THEN Built(FALSE, o1, paths)
        ELSE
          LET o2 == SetSub(o1, "target_impression_share", "location",
                           location_str)
              o3 == SetSub(o2, "target_impression_share",
                           "location_fraction_micros",
                           d["location_fraction_micros"])
              p3 == paths \o << "target_impression_share.location",
                          "target_impression_share.location_fraction_micros" >>
          IN  IF "cpc_bid_ceiling_micros" \in DOMAIN d
              THEN Built(TRUE,
                         SetSub(o3, "target_impression_share",
                                "cpc_bid_ceiling_micros",
                                d["cpc_bid_ceiling_micros"]),
                         Append(p3,
                           "target_impression_share.cpc_bid_ceiling_micros"))
              ELSE Built(TRUE, o3, p3)

\* _apply_percent_cpc writing enhanced_cpc_enabled into the manual_cpc variant
_apply_percent_cpc_into_manual_cpc(obj, paths, details) ==
  LET o1 == Activate(obj, "percent_cpc")
      o2 == IF HasDetail(details, "cpc_bid_ceiling_micros")
              THEN SetSub(o1, "percent_cpc", "cpc_bid_ceiling_micros",
                          details[1]["cpc_bid_ceiling_micros"])
              ELSE o1
      o3 == IF HasDetail(details, "enhanced_cpc_enabled")
              THEN SetSub(o2, "manual_cpc", "enhanced_cpc_enabled",
                          details[1]["enhanced_cpc_enabled"])
              ELSE o2
  IN  Built(TRUE, o3, Append(paths, "percent_cpc.cpc_bid_ceiling_micros"))

_apply_percent_cpc(obj, paths, details) ==
  LET o1 == Activate(obj, "percent_cpc")
      o2 == IF HasDetail(details, "cpc_bid_ceiling_micros")
              THEN SetSub(o1, "percent_cpc", "cpc_bid_ceiling_micros",
                          details[1]["cpc_bid_ceiling_micros"])
              ELSE o1
      o3 == IF HasDetail(details, "enhanced_cpc_enabled")
              THEN SetSub(o2, "percent_cpc", "enhanced_cpc_enabled",
                          details[1]["enhanced_cpc_enabled"])
              ELSE o2
  IN  Built(TRUE, o3, Append(paths, "percent_cpc.cpc_bid_ceiling_micros"))

_apply_commission(obj, paths, details) ==
  LET o1 == Activate(obj, "commission")
      o2 == IF HasDetail(details, "commission_rate_micros")
              THEN SetSub(o1, "commission", "commission_rate_micros",
                          details[1]["commission_rate_micros"])
              ELSE o1
  IN  Built(TRUE, o2, Append(paths, "commission.commission_rate_micros"))

\* _apply_target_cpa treating target_cpa_micros as optional
_apply_target_cpa_optional(obj, paths, details) ==
  LET o1 == Activate(obj, "target_cpa")
      o2 == IF HasDetail(details, "target_cpa_micros")
              THEN SetSub(o1, "target_cpa", "target_cpa_micros",
                          details[1]["target_cpa_micros"])
              ELSE o1
  IN  Built(TRUE, o2, Append(paths, "target_cpa.target_cpa_micros"))

_apply_target_cpa(obj, paths, details) ==
  LET o1 == Activate(obj, "target_cpa")
  IN  IF HasDetail(details, "target_cpa_micros")
      THEN Built(TRUE,
                 SetSub(o1, "target_cpa", "target_cpa_micros", details[1]["target_cpa_micros"]),
                 Append(paths, "target_cpa.target_cpa_micros"))
      ELSE Built(FALSE, o1, paths)

_apply_target_roas(obj, paths, details) ==
  LET o1 == Activate(obj, "target_roas")
  IN  IF HasDetail(details, "target_roas")
      THEN Built(TRUE,
                 SetSub(o1, "target_roas", "target_roas", details[1]["target_roas"]),
                 Append(paths, "target_roas.target_roas"))
      ELSE Built(FALSE, o1, paths)

_apply_bidding_strategy_details(obj, strategy_type, paths, details) ==
  CASE strategy_type = "MAXIMIZE_CONVERSIONS" ->
         _apply_maximize_conversions(obj, paths, details)
    [] strategy_type = "MAXIMIZE_CONVERSION_VALUE" ->
         _apply_maximize_conversion_value(obj, paths, details)
    [] strategy_type = "TARGET_SPEND" ->
         _apply_target_spend(obj, paths, details)
    [] strategy_type = "MANUAL_CPC" ->
         _apply_manual_cpc(obj, paths, details)
    [] strategy_type = "TARGET_IMPRESSION_SHARE" ->
         _apply_target_impression_share(obj, paths, details)
    [] strategy_type = "MANUAL_CPM" ->
         Built(TRUE, Activate(obj, "manual_cpm"), paths)
    [] strategy_type = "MANUAL_CPV" ->
         Built(TRUE, Activate(obj, "manual_cpv"), paths)
    [] strategy_type = "PERCENT_CPC" ->
         _apply_percent_cpc(obj, paths, details)
    [] strategy_type = "COMMISSION" ->
         _apply_commission(obj, paths, details)
    [] strategy_type = "TARGET_CPA" ->
         _apply_target_cpa(obj, paths, details)
    [] strategy_type = "TARGET_ROAS" ->
         _apply_target_roas(obj, paths, details)
    [] OTHER -> Built(FALSE, obj, paths)

(***************************************************************************)
(* Field masks                                                             *)
(***************************************************************************)
\* every path the updater can put in a mask, in Python's str order
PathOrder ==
  << "amount_micros",
     "bidding_strategy",
     "commission.commission_rate_micros",
     "manual_cpc.enhanced_cpc_enabled",
     "maximize_conversion_value.target_roas",
     "maximize_conversions.target_cpa_micros",
     "percent_cpc.cpc_bid_ceiling_micros",
     "percent_cpc.enhanced_cpc_enabled",
     "status",
     "target_cpa.target_cpa_micros",
     "target_impression_share.cpc_bid_ceiling_micros",
     "target_impression_share.location",
     "target_impression_share.location_fraction_micros",
     "target_roas.target_roas",
     "target_spend.cpc_bid_ceiling_micros" >>

Range(seq) == { seq[i] : i \in 1..Len(seq) }

\* sorted(list(set(paths)))
SortedSet(paths) == SelectSeq(PathOrder, LAMBDA p : p \in Range(paths))

(***************************************************************************)
(* The backend environment of a call and the result of a call              *)
(***************************************************************************)
CUSTOMER == "1"
CAMPAIGN == "2"
AD_GROUP == "3"

\* campaign_service.campaign_path(customer_id, campaign_id)
campaign_path(customer_id, campaign_id) ==
  "customers/" \o customer_id \o "/campaigns/" \o campaign_id

\* ad_group_service.ad_group_path(customer_id, ad_group_id)
ad_group_path(customer_id, ad_group_id) ==
  "customers/" \o customer_id \o "/adGroups/" \o ad_group_id

\* geo_target_constant_service.geo_target_constant_path(location_id)
geo_target_constant_path(location_id) == "geoTargetConstants/" \o location_id

\* the errors a GoogleAdsFailure can list: an error code and a message each
AlignmentError ==
  [ error_code |-> "bidding_error: BIDDING_STRATEGY_AND_BUDGET_MUST_BE_ALIGNED",
    message |-> "Budget and strategy not aligned" ]

TransientError ==
  [ error_code |-> "internal_error: TRANSIENT_ERROR",
    message |-> "Try again later" ]

\* ex.failure of a GoogleAdsException: the list of structured errors
GoogleAdsFailure(errors) == [ errors |-> errors ]

\* str(error) of one structured error
ErrorText(error) ==
  "error_code { " \o error.error_code \o " } message: \""
    \o error.message \o "\""

\* f"{ex.failure}": the failure flattened to one string, an errors block
\* per error
RECURSIVE FailureText(_)
FailureText(errors) ==
  IF errors = <<>> THEN ""
  ELSE "errors { " \o ErrorText(Head(errors)) \o " } "
         \o FailureText(Tail(errors))

\* f"{ex.failure}" of the GoogleAdsException the backend of e raises
BackendFailure(e) == FailureText(e.failure.errors)

\* the record of one tool call: how it ended, what it validated and built,
\* how often it asked for an ads client and which backend calls it made
NewCall(tool, mode) ==
  [ tool |-> tool, mode |-> mode,
    outcome |-> "return", exc |-> "", msg |-> <<>>, result |-> <<>>,
    is_valid |-> <<>>, applied |-> <<>>, target |-> <<>>, accum |-> <<>>,
    cause |-> <<>>,
    submitted |-> <<>>, clients |-> 0, queries |-> 0, logged |-> 0 ]

\* client = get_google_ads_client(customer_id), counted on the call record
get_google_ads_client(call) == [call EXCEPT !.clients = @ + 1]

Raise(call, exc, msg) ==
  [call EXCEPT !.outcome = "raise", !.exc = exc, !.msg = msg]

\* raise exc(msg) from ex: the new exception holds msg, and ex only as its
\* __cause__
RaiseFrom(call, exc, msg, ex) ==
  [call EXCEPT !.outcome = "raise", !.exc = exc, !.msg = msg,
               !.cause = << ex >>]

Return(call, result) == [call EXCEPT !.outcome = "return", !.result = result]

\* one backend mutate call
Mutate(method, operations) == [ method |-> method, operations |-> operations ]

\* get_campaign_details(customer_id, campaign_id): it obtains an ads
\* client of its own, runs one search and converts the first row.  The
\* "not found" error is raised inside the loop over the batches of the
\* stream, so a stream without any batch falls out of the loop and the
\* function returns None.
get_campaign_details(e, customer_id, campaign_id) ==
  LET answer == [ raised |-> FALSE, exc |-> "", msg |-> <<>>, cause |-> <<>>,
                  none |-> FALSE, data |-> <<>>, clients |-> 1, queries |-> 1 ]
  IN  IF e.search = "no_client"
      THEN [answer EXCEPT !.raised = TRUE, !.exc = "RuntimeError",
                          !.msg = << "Failed to get Google Ads client." >>,
                          !.queries = 0]
      ELSE IF e.search = "fail"
      THEN [answer EXCEPT !.raised = TRUE, !.exc = "RuntimeError",
                          !.msg = << "Failed to fetch campaign details: ",
                                     BackendFailure(e) >>,
                          !.cause = << e.failure >>]
      ELSE IF e.campaign = "<no_batch>"
      THEN [answer EXCEPT !.none = TRUE]
      ELSE IF e.campaign = "<not_found>"
      THEN [answer EXCEPT !.raised = TRUE, !.exc = "ValueError",
                          !.msg = << "Campaign with ID '", campaign_id,
                                     "' not found." >>]
      ELSE IF e.campaign = "<absent>"
      THEN [answer EXCEPT !.data =
              [ resourceName |-> campaign_path(customer_id, campaign_id) ]]
      ELSE [answer EXCEPT !.data =
              [ resourceName |-> campaign_path(customer_id, campaign_id),
                advertisingChannelType |-> e.campaign ]]

(***************************************************************************)
(* update_bidding_strategy                                                 *)
(***************************************************************************)
\* step 3 and 4: construct the mutation and execute it
SubmitBiddingStrategy(c0, r, e) ==
  LET campaign == FreshTarget(campaign_path(r.customer_id, r.campaign_id))
      b == IF startswith(r.strategy_type, "customers/")
           THEN Built(TRUE,
                      SetTop(campaign, "bidding_strategy", r.strategy_type),
                      << "bidding_strategy" >>)
           ELSE _apply_bidding_strategy_details(campaign, r.strategy_type,
                                                <<>>, r.strategy_details)
      applied == IF startswith(r.strategy_type, "customers/")
                 THEN <<>> ELSE << b.ret >>
      c1 == [c0 EXCEPT !.applied = applied, !.target = << b.obj >>,
                       !.accum = b.paths]
  IN  IF ~b.ret
      THEN Raise(c1, "ValueError",
                 << "Failed to apply bidding strategy details for type: ",
                    r.strategy_type >>)
      ELSE
        LET field_mask_paths ==
              IF startswith(r.strategy_type, "customers/")
              THEN b.paths ELSE Append(b.paths, "bidding_strategy")
            campaign_op == [ update |-> b.obj, update_mask |-> field_mask_paths ]
            c2 == [c1 EXCEPT !.submitted = Append(@,
                                Mutate("mutate_campaigns", << campaign_op >>))]
        IN  IF e.backend = "reject"
            THEN RaiseFrom(c2, "RuntimeError",
                           << "Failed to update bidding strategy: ",
                              BackendFailure(e) >>, e.failure)
            ELSE Return(c2, [ success |-> TRUE,
                              resource_name |-> b.obj.resource_name ])

\* step 2 that logs the validation result but does not act on it
ValidateAndSubmit_ungated(c1, r, e, advertising_channel_type) ==
  LET is_valid == validate_strategy_change(advertising_channel_type,
                                           r.strategy_type)
      c2 == [c1 EXCEPT !.is_valid = << is_valid >>]
  IN  SubmitBiddingStrategy(c2, r, e)

\* step 2: validate the strategy change, then construct and submit
ValidateAndSubmit(c1, r, e, advertising_channel_type) ==
  LET is_valid == validate_strategy_change(advertising_channel_type,
                                           r.strategy_type)
      c2 == [c1 EXCEPT !.is_valid = << is_valid >>]
  IN  IF ~is_valid
      THEN Raise(c2, "ValueError",
                 << "Bidding strategy '", r.strategy_type,
                    "' is not allowed for channel type '",
                    advertising_channel_type, "'." >>)
      ELSE SubmitBiddingStrategy(c2, r, e)

\* update_bidding_strategy that goes on to validation with an empty channel
\* type when the lookup gave none
update_bidding_strategy_unchecked(r, e) ==
  LET c0 == get_google_ads_client(NewCall("update_bidding_strategy", "real"))
      lookup == get_campaign_details(e, r.customer_id, r.campaign_id)
      c1 == [c0 EXCEPT !.clients = @ + lookup.clients,
                       !.queries = lookup.queries]
  IN  IF ~e.client
      THEN Raise(c0, "RuntimeError", << "Failed to get Google Ads client." >>)
      ELSE ValidateAndSubmit(c1, r, e,
             IF "advertisingChannelType" \in DOMAIN lookup.data
             THEN lookup.data["advertisingChannelType"] ELSE "")

update_bidding_strategy(r, e) ==
  LET c0 == get_google_ads_client(NewCall("update_bidding_strategy", "real"))
  IN  IF ~e.client
      THEN Raise(c0, "RuntimeError", << "Failed to get Google Ads client." >>)
      ELSE
        LET lookup == get_campaign_details(e, r.customer_id, r.campaign_id)
            c1 == [c0 EXCEPT !.clients = @ + lookup.clients,
                             !.queries = lookup.queries]
        IN  IF lookup.raised
            THEN [Raise(c1, lookup.exc, lookup.msg)
                    EXCEPT !.cause = lookup.cause]
            ELSE IF lookup.none
            THEN \* campaign_data.get("error") on None
                 Raise(c1, "AttributeError",
                       << "'NoneType' object has no attribute 'get'" >>)
            ELSE IF "error" \in DOMAIN lookup.data
            THEN Return(c1, lookup.data)
            ELSE IF "advertisingChannelType" \notin DOMAIN lookup.data
            THEN Raise(c1, "ValueError",
                       << "Could not determine advertising_channel_type." >>)
            ELSE ValidateAndSubmit(c1, r, e,
                                   lookup.data["advertisingChannelType"])

(***************************************************************************)
(* update_portfolio_bidding_strategy                                       *)
(***************************************************************************)
update_portfolio_bidding_strategy(r, e) ==
  LET c0 == get_google_ads_client(NewCall("update_portfolio_bidding_strategy", "real"))
  IN  IF ~e.client
      THEN Raise(c0, "RuntimeError", << "Failed to get Google Ads client." >>)
      ELSE IF ~startswith(r.resource_name,
                "customers/" \o r.customer_id \o "/biddingStrategies/")
      THEN Raise(c0, "ValueError",
                 << "Invalid bidding_strategy_resource_name format for customer ",
                    r.customer_id, "." >>)
      ELSE
        LET bidding_strategy == FreshTarget(r.resource_name)
            b == _apply_bidding_strategy_details(bidding_strategy,
                   r.strategy_type, <<>>, r.strategy_details)
            c1 == [c0 EXCEPT !.applied = << b.ret >>, !.target = << b.obj >>,
                             !.accum = b.paths]
        IN  IF ~b.ret
            THEN Raise(c1, "ValueError",
                   << "Failed to apply bidding strategy details for type: ",
                      r.strategy_type >>)
            ELSE
              LET final_mask_paths == SortedSet(b.paths)
                  bs_op == [ update |-> b.obj,
                             update_mask |-> final_mask_paths ]
                  c2 == [c1 EXCEPT !.submitted = Append(@,
                                      Mutate("mutate_bidding_strategies",
                                             << bs_op >>))]
              IN  IF e.backend = "reject"
                  THEN RaiseFrom(c2, "RuntimeError",
                         << "Failed to update portfolio bidding strategy: ",
                            BackendFailure(e) >>, e.failure)
                  ELSE Return(c2, [ success |-> TRUE,
                                    resource_name |-> b.obj.resource_name ])

(***************************************************************************)
(* update_campaign_status, update_campaign_budget, update_shared_budget    *)
(***************************************************************************)
\* update_campaign_status that passes any status value on to the backend
update_campaign_status_unchecked(r, e) ==
  LET c0 == get_google_ads_client(NewCall("update_campaign_status", "real"))
      campaign == SetTop(
        FreshTarget(campaign_path(r.customer_id, r.campaign_id)),
        "status", r.status)
      campaign_op == [ update |-> campaign,
                       update_mask |-> << "status", "status" >> ]
      c1 == [c0 EXCEPT !.target = << campaign >>,
                       !.submitted = Append(@,
                          Mutate("mutate_campaigns", << campaign_op >>))]
  IN  IF ~e.client
      THEN Raise(c0, "RuntimeError", << "Failed to get Google Ads client." >>)
      ELSE IF e.backend = "reject"
      THEN RaiseFrom(c1, "RuntimeError",
                     << "Failed to update campaign: ", BackendFailure(e) >>,
                     e.failure)
      ELSE Return(c1, [ success |-> TRUE,
                        resource_name |-> campaign.resource_name ])

update_campaign_status(r, e) ==
  LET c0 == get_google_ads_client(NewCall("update_campaign_status", "real"))
  IN  IF ~e.client
      THEN Raise(c0, "RuntimeError", << "Failed to get Google Ads client." >>)
      ELSE IF r.status \notin { "ENABLED", "PAUSED" }
      THEN Raise(c0, "ValueError",
                 << "Invalid status provided: ", r.status,
                    ". Use 'ENABLED' or 'PAUSED'." >>)
      ELSE
        LET campaign == SetTop(
              FreshTarget(campaign_path(r.customer_id, r.campaign_id)),
              "status", r.status)
            \* copy_from(update_mask, FieldMask(paths=["status"])), then
            \* update_mask.paths.append("status")
            update_mask == Append(<< "status" >>, "status")
            campaign_op == [ update |-> campaign, update_mask |-> update_mask ]
            c1 == [c0 EXCEPT !.target = << campaign >>,
                             !.submitted = Append(@,
                                Mutate("mutate_campaigns", << campaign_op >>))]
        IN  IF e.backend = "reject"
            THEN RaiseFrom(c1, "RuntimeError",
                           << "Failed to update campaign: ",
                              BackendFailure(e) >>, e.failure)
            ELSE Return(c1, [ success |-> TRUE,
                              resource_name |-> campaign.resource_name ])

\* the budget mutation shared by update_campaign_budget and
\* update_shared_budget
SubmitBudget(c0, e, budget_resource_name, amount_micros, failure_text) ==
  LET budget == SetTop(FreshTarget(budget_resource_name),
                       "amount_micros", amount_micros)
      campaign_budget_op == [ update |-> budget,
                              update_mask |-> << "amount_micros" >> ]
      c1 == [c0 EXCEPT !.target = << budget >>,
                       !.submitted = Append(@,
                          Mutate("mutate_campaign_budgets",
                                 << campaign_budget_op >>))]
  IN  IF e.backend = "reject"
      THEN RaiseFrom(c1, "RuntimeError",
                     << failure_text, BackendFailure(e) >>, e.failure)
      ELSE Return(c1, [ success |-> TRUE,
                        resource_name |-> budget.resource_name ])

update_campaign_budget(r, e) ==
  LET c0 == get_google_ads_client(NewCall("update_campaign_budget", "real"))
  IN  IF ~e.client
      THEN Raise(c0, "RuntimeError", << "Failed to get Google Ads client." >>)
      ELSE
        LET c1 == [c0 EXCEPT !.queries = 1]
            campaign_budget_resource_name ==
              IF e.campaign = "<not_found>" THEN "" ELSE e.budget
        IN  IF e.search = "fail"
            THEN RaiseFrom(c1, "RuntimeError",
                           << "Failed to fetch campaign budget: ",
                              BackendFailure(e) >>, e.failure)
            ELSE IF campaign_budget_resource_name = ""
            THEN Return(c1, [ error |-> << "Campaign with ID '", r.campaign_id,
                                           "' not found or has no budget." >> ])
            ELSE SubmitBudget(c1, e, campaign_budget_resource_name,
                              r.new_budget_micros,
                              "Failed to update campaign budget: ")

\* update_shared_budget without the test of the resource name
update_shared_budget_unscoped(r, e) ==
  LET c0 == get_google_ads_client(NewCall("update_shared_budget", "real"))
  IN  IF ~e.client
      THEN Raise(c0, "RuntimeError", << "Failed to get Google Ads client." >>)
      ELSE SubmitBudget(c0, e, r.resource_name, r.new_budget_micros,
                        "Failed to update shared budget: ")

update_shared_budget(r, e) ==
  LET c0 == get_google_ads_client(NewCall("update_shared_budget", "real"))
  IN  IF ~e.client
      THEN Raise(c0, "RuntimeError", << "Failed to get Google Ads client." >>)
      ELSE IF ~startswith(r.resource_name,
                "customers/" \o r.customer_id \o "/campaignBudgets/")
      THEN Raise(c0, "ValueError",
                 << "Invalid budget_resource_name format for customer ",
                    r.customer_id, "." >>)
      ELSE SubmitBudget(c0, e, r.resource_name, r.new_budget_micros,
                        "Failed to update shared budget: ")

(***************************************************************************)
(* update_campaign_geo_targets, update_ad_group_geo_targets                *)
(***************************************************************************)
\* the body of the geo-target tools without the removal of what exists
GeoTargets_add_only(c0, r, e, parent, method, failure_text) ==
  LET c1 == [c0 EXCEPT !.queries = 1]
      add_operations ==
        [ i \in 1..Len(r.location_ids) |->
            [ create |-> [ parent |-> parent,
                           geo_target_constant |->
                             geo_target_constant_path(r.location_ids[i]),
                           negative |-> r.negative ] ] ]
      c2 == [c1 EXCEPT !.submitted = Append(@, Mutate(method, add_operations))]
  IN  IF ~e.client
      THEN Raise(c0, "RuntimeError", << "Failed to get Google Ads client." >>)
      ELSE IF e.search = "fail" \/ e.backend = "reject"
      THEN RaiseFrom(c1, "RuntimeError",
                     << failure_text, BackendFailure(e) >>, e.failure)
      ELSE IF add_operations = <<>>
              \/ \E i \in 1..Len(r.location_ids) : ~isdigit(r.location_ids[i])
      THEN Return(c1, [ success |-> TRUE, message |-> "No changes to apply." ])
      ELSE Return(c2, [ success |-> TRUE, resource_names |-> <<>> ])

\* the body both geo-target tools share; `parent` is the campaign or ad
\* group path the new criteria hang under
GeoTargets(c0, r, e, parent, method, failure_text) ==
  IF ~e.client
  THEN Raise(c0, "RuntimeError", << "Failed to get Google Ads client." >>)
  ELSE
    LET c1 == [c0 EXCEPT !.queries = 1]
        remove_operations ==
          [ i \in 1..Len(e.criteria) |-> [ remove |-> e.criteria[i] ] ]
        bad == { i \in 1..Len(r.location_ids) : ~isdigit(r.location_ids[i]) }
        add_operations ==
          [ i \in 1..Len(r.location_ids) |->
              [ create |-> [ parent |-> parent,
                             geo_target_constant |->
                               geo_target_constant_path(r.location_ids[i]),
                             negative |-> r.negative ] ] ]
        operations == remove_operations \o add_operations
        resource_names ==
          [ i \in 1..Len(operations) |->
              IF i <= Len(e.criteria) THEN e.criteria[i]
              ELSE parent \o "~" \o r.location_ids[i - Len(e.criteria)] ]
    IN  IF e.search = "fail"
        THEN RaiseFrom(c1, "RuntimeError",
                       << "Failed to fetch existing geo targets: ",
                          BackendFailure(e) >>, e.failure)
        ELSE IF bad # {}
        THEN Return(c1,
               [ error |-> << "Invalid location_id: '",
                   r.location_ids[CHOOSE i \in bad : \A j \in bad : i <= j],
                   "'. Location ID must be a numeric string (e.g., '2840' for USA)." >> ])
        ELSE IF operations = <<>>
        THEN Return(c1, [ success |-> TRUE, message |-> "No changes to apply." ])
        ELSE
          LET c2 == [c1 EXCEPT !.submitted = Append(@,
                                  Mutate(method, operations))]
          IN  IF e.backend = "reject"
              THEN RaiseFrom(c2, "RuntimeError",
                             << failure_text, BackendFailure(e) >>, e.failure)
              ELSE Return(c2, [ success |-> TRUE,
                                resource_names |-> resource_names ])

update_campaign_geo_targets(r, e) ==
  GeoTargets(get_google_ads_client(NewCall("update_campaign_geo_targets", "real")), r, e,
             campaign_path(r.customer_id, r.campaign_id),
             "mutate_campaign_criteria",
             "Failed to update campaign geo targets: ")

update_ad_group_geo_targets(r, e) ==
  GeoTargets(get_google_ads_client(NewCall("update_ad_group_geo_targets", "real")), r, e,
             ad_group_path(r.customer_id, r.ad_group_id),
             "mutate_ad_group_criteria",
             "Failed to update ad group geo targets: ")

(***************************************************************************)
(* Action log (core/action_logger.py) and the dry-run tools                *)
(***************************************************************************)
\* the record log_action builds (result is None in every call the tools make)
ActionRecord(tool_name, params, description, simulated) ==
  [ tool |-> tool_name, params |-> params, description |-> description,
    simulated |-> simulated ]

\* log_action that puts the new record in front
log_action_at_front(log, tool_name, params, description, simulated) ==
  << ActionRecord(tool_name, params, description, simulated) >> \o log

\* _actions after log_action(...)
log_action(log, tool_name, params, description, simulated) ==
  Append(log, ActionRecord(tool_name, params, description, simulated))

\* _actions after clear_actions()
clear_actions(log) == <<>>

\* get_actions(): a copy of the list
get_actions(log) == log

\* a list object a caller holds: `shared` tells whether it is the _actions
\* list itself, `items` what it held when the caller got it.
\* The _actions list itself, handed out without copying:
list_alias(log) == [ shared |-> TRUE, items |-> log ]

\* list(_actions): a new list with the same items
list_copy(log) == [ shared |-> FALSE, items |-> log ]

\* what a list object holds now, _actions being `log`
Observed(list, log) == IF list.shared THEN log ELSE list.items

\* f"{micros / 1_000_000:.2f}" for amounts that are not at a rounding tie
Fmt2(micros) ==
  LET cents == (micros + 5000) \div 10000
      frac == cents % 100
  IN  ToString(cents \div 100) \o "."
        \o (IF frac < 10 THEN "0" ELSE "") \o ToString(frac)

\* _log_action that logs the action as a real one
_log_action_as_real(c0, log, tool_name, params, description) ==
  [ log |-> log_action(log, tool_name, params, description, FALSE),
    call |-> Return(c0,
      [ success |-> TRUE, dry_run |-> TRUE,
        message |-> << "[DRY-RUN] " >> \o description,
        resource_name |->
          "simulated/" \o (IF "campaign_id" \in DOMAIN params
                             THEN params["campaign_id"] ELSE "unknown") ]) ]

\* _log_action(tool_name, params, description): the new log and the
\* simulated success result
_log_action(c0, log, tool_name, params, description) ==
  [ log |-> log_action(log, tool_name, params, description, TRUE),
    call |-> Return(c0,
      [ success |-> TRUE, dry_run |-> TRUE,
        message |-> << "[DRY-RUN] " >> \o description,
        resource_name |->
          "simulated/" \o (IF "campaign_id" \in DOMAIN params
                             THEN params["campaign_id"] ELSE "unknown") ]) ]

dry_run_update_campaign_status(r, log) ==
  _log_action(NewCall("update_campaign_status", "dry"), log,
    "update_google_ads_campaign_status",
    [ customer_id |-> r.customer_id, campaign_id |-> r.campaign_id,
      status |-> r.status ],
    << "Change campaign ", r.campaign_id, " status to ", r.status >>)

dry_run_update_campaign_budget(r, log) ==
  LET budget_amount == Fmt2(r.new_budget_micros)
  IN  _log_action(NewCall("update_campaign_budget", "dry"), log,
        "update_google_ads_campaign_budget",
        [ customer_id |-> r.customer_id, campaign_id |-> r.campaign_id,
          new_budget_micros |-> r.new_budget_micros ],
        << "Change campaign ", r.campaign_id, " budget to $", budget_amount >>)

dry_run_update_campaign_geo_targets(r, log) ==
  LET target_type == IF r.negative THEN "negative" ELSE "positive"
  IN  _log_action(NewCall("update_campaign_geo_targets", "dry"), log,
        "update_google_ads_campaign_geo_targets",
        [ customer_id |-> r.customer_id, campaign_id |-> r.campaign_id,
          location_ids |-> r.location_ids, negative |-> r.negative ],
        << "Update campaign ", r.campaign_id, " ", target_type,
           " geo targets to " >> \o r.location_ids)

dry_run_update_ad_group_geo_targets(r, log) ==
  LET target_type == IF r.negative THEN "negative" ELSE "positive"
  IN  _log_action(NewCall("update_ad_group_geo_targets", "dry"), log,
        "update_google_ads_ad_group_geo_targets",
        [ customer_id |-> r.customer_id, ad_group_id |-> r.ad_group_id,
          location_ids |-> r.location_ids, negative |-> r.negative ],
        << "Update ad group ", r.ad_group_id, " ", target_type,
           " geo targets to " >> \o r.location_ids)

dry_run_update_bidding_strategy(r, log) ==
  _log_action(NewCall("update_bidding_strategy", "dry"), log,
    "update_google_ads_bidding_strategy",
    [ customer_id |-> r.customer_id, campaign_id |-> r.campaign_id,
      strategy_type |-> r.strategy_type,
      strategy_details |-> r.strategy_details ],
    << "Change campaign ", r.campaign_id, " bidding strategy to ",
       r.strategy_type >>)

dry_run_update_shared_budget(r, log) ==
  LET budget_amount == Fmt2(r.new_budget_micros)
  IN  _log_action(NewCall("update_shared_budget", "dry"), log,
        "update_google_ads_shared_budget",
        [ customer_id |-> r.customer_id,
          budget_resource_name |-> r.resource_name,
          new_amount_micros |-> r.new_budget_micros ],
        << "Change shared budget ", r.resource_name, " to $", budget_amount >>)

dry_run_update_portfolio_bidding_strategy(r, log) ==
  _log_action(NewCall("update_portfolio_bidding_strategy", "dry"), log,
    "update_google_ads_portfolio_bidding_strategy",
    [ customer_id |-> r.customer_id,
      bidding_strategy_resource_name |-> r.resource_name,
      strategy_type |-> r.strategy_type,
      strategy_details |-> r.strategy_details ],
    << "Change portfolio strategy ", r.resource_name, " to ",
       r.strategy_type >>)

(***************************************************************************)
(* Requests and environments                                               *)
(***************************************************************************)
DetailKeys ==
  { "target_cpa_micros", "target_roas", "cpc_bid_ceiling_micros",
    "enhanced_cpc_enabled", "location", "location_fraction_micros",
    "commission_rate_micros", "unrecognized_key" }

\* the value a details bag carries under a key other than location
DetailValue(key) ==
  CASE key = "target_cpa_micros" -> 5000000
    [] key = "target_roas" -> 3
    [] key = "cpc_bid_ceiling_micros" -> 2000000
    [] key = "enhanced_cpc_enabled" -> TRUE
    [] key = "location_fraction_micros" -> 300000
    [] key = "commission_rate_micros" -> 100000
    [] OTHER -> 1

BagsOver(keys) ==
  LET base == [ k \in keys \ {"location"} |-> DetailValue(k) ]
  IN  IF "location" \in keys
      THEN { ("location" :> l) @@ base : l \in LocationInputs }
      ELSE { base }

DetailBags ==
  UNION { BagsOver(keys) :
            keys \in { K \in SUBSET DetailKeys : Cardinality(K) <= MaxDetailKeys } }

\* strategy_details: None or a dict
DetailInputs == { <<>> } \cup { << b >> : b \in DetailBags }

BudgetName == "customers/1/campaignBudgets/7"

NoRequest ==
  [ tool |-> "", customer_id |-> CUSTOMER, campaign_id |-> "", ad_group_id |-> "",
    strategy_type |-> "", strategy_details |-> <<>>, status |-> "",
    new_budget_micros |-> 0, location_ids |-> <<>>, negative |-> FALSE,
    resource_name |-> "" ]

\* the customers a shared-budget or portfolio request acts for
ActingCustomers == { "1", "2" }

\* budget_resource_name arguments: the acting customer's budget, budgets
\* of other customers, a resource of another collection, and strings
\* without the customer prefix
BudgetNameInputs ==
  { BudgetName, "customers/2/campaignBudgets/7",
    "customers/12/campaignBudgets/7", "customers/1/biddingStrategies/9",
    "campaignBudgets/7", "" }

\* bidding_strategy_resource_name arguments, likewise
StrategyNameInputs ==
  { PortfolioRef, "customers/2/biddingStrategies/9",
    "customers/12/biddingStrategies/9", "customers/1/campaignBudgets/7",
    "biddingStrategies/9", "" }

LocationIdInputs ==
  { <<>>, << "2840" >>, << "2826", "2840" >>, << "2840", "abc" >> }

Requests ==
  { [NoRequest EXCEPT !.tool = "update_bidding_strategy",
                      !.campaign_id = CAMPAIGN,
                      !.strategy_type = st, !.strategy_details = d] :
      st \in StrategyInputs, d \in DetailInputs }
  \cup
  { [NoRequest EXCEPT !.tool = "update_portfolio_bidding_strategy",
                      !.resource_name = rn,
                      !.strategy_type = st, !.strategy_details = d] :
      rn \in { PortfolioRef, "customers/2/biddingStrategies/9" },
      st \in StrategyInputs, d \in DetailInputs }
  \cup
  { [NoRequest EXCEPT !.tool = "update_campaign_status",
                      !.campaign_id = CAMPAIGN, !.status = status] :
      status \in { "ENABLED", "PAUSED", "REMOVED", "paused" } }
  \cup
  { [NoRequest EXCEPT !.tool = "update_campaign_budget",
                      !.campaign_id = CAMPAIGN, !.new_budget_micros = m] :
      m \in { 600000, 1234567 } }
  \cup
  { [NoRequest EXCEPT !.tool = "update_shared_budget",
                      !.customer_id = cid,
                      !.resource_name = rn, !.new_budget_micros = m] :
      cid \in ActingCustomers, rn \in BudgetNameInputs,
      m \in { 600000, 1234567 } }
  \cup
  { [NoRequest EXCEPT !.tool = "update_portfolio_bidding_strategy",
                      !.customer_id = cid, !.resource_name = rn,
                      !.strategy_type = "TARGET_CPA",
                      !.strategy_details =
                         << [ target_cpa_micros |-> 5000000 ] >>] :
      cid \in ActingCustomers, rn \in StrategyNameInputs }
  \cup
  { [NoRequest EXCEPT !.tool = "update_campaign_geo_targets",
                      !.campaign_id = CAMPAIGN,
                      !.location_ids = ids, !.negative = neg] :
      ids \in LocationIdInputs, neg \in BOOLEAN }
  \cup
  { [NoRequest EXCEPT !.tool = "update_ad_group_geo_targets",
                      !.ad_group_id = AD_GROUP,
                      !.location_ids = ids, !.negative = neg] :
      ids \in LocationIdInputs, neg \in BOOLEAN }

\* a backend that has the campaign (with the given channel type), its
\* budget and no LOCATION criteria, and accepts every mutation
EnvOK(channel) ==
  [ client |-> TRUE, search |-> "ok", campaign |-> channel,
    budget |-> BudgetName, criteria |-> <<>>, backend |-> "accept",
    failure |-> GoogleAdsFailure(<<>>) ]

\* the error lists a failing backend call reports
ErrorInputs == { << AlignmentError >>, << TransientError, AlignmentError >> }

\* the environments a request is run in: every channel type, and each
\* single fault
Envs(r) ==
  LET ok == EnvOK("SEARCH")
      faults == { [ok EXCEPT !.client = FALSE],
                  [ok EXCEPT !.search = "fail",
                             !.failure = GoogleAdsFailure(<< TransientError >>)] }
                \cup { [ok EXCEPT !.backend = "reject",
                                  !.failure = GoogleAdsFailure(errors)] :
                         errors \in ErrorInputs }
  IN  CASE r.tool = "update_bidding_strategy" ->
             { EnvOK(ch) : ch \in ChannelInputs
                             \cup {"<absent>", "<not_found>", "<no_batch>"} }
               \cup faults \cup { [ok EXCEPT !.search = "no_client"] }
        [] r.tool = "update_campaign_budget" ->
             { ok, EnvOK("<not_found>"), [ok EXCEPT !.budget = ""] } \cup faults
        [] r.tool \in { "update_campaign_geo_targets",
                        "update_ad_group_geo_targets" } ->
             { [ e EXCEPT !.criteria = c ] :
                 e \in {ok} \cup faults,
                 c \in { <<>>, << "customers/1/criteria/1000" >> } }
        [] OTHER -> {ok} \cup faults

(***************************************************************************)
(* State machine                                                           *)
(***************************************************************************)
\* the tools' real function names
UpdaterTools ==
  { "update_campaign_status", "update_campaign_budget",
    "update_campaign_geo_targets", "update_ad_group_geo_targets",
    "update_bidding_strategy", "update_shared_budget",
    "update_portfolio_bidding_strategy" }

\* the tools each toolset of the agent offers, by function name
GoogleAdsGetterToolset ==
  { "get_campaign_details", "search_geo_target_constants", "get_geo_targets",
    "list_portfolio_bidding_strategies", "get_campaigns_by_bidding_strategy",
    "list_shared_budgets" }

GoogleAdsUpdaterToolset == UpdaterTools

DryRunGoogleAdsUpdaterToolset == { "dry_run_" \o tool : tool \in UpdaterTools }

FirestoreToolset ==
  { "get_document", "query_collection", "set_document", "delete_document",
    "list_collections" }

SA360Toolset ==
  { "get_sa360_campaign_details_sheet", "get_sa360_campaign_details",
    "update_sa360_campaign_status", "update_sa360_campaign_geolocation",
    "update_sa360_campaign_budget" }

\* the operations discovered in API Hub, as one opaque tool
DynamicMultiAPIToolset == { "api_hub_operation" }

\* create_agent(instruction, dry_run=dry_run): the updater toolset chosen
\* and the tools of the five toolsets
create_agent(dry_run) ==
  [ updater_toolset |-> IF dry_run THEN "DryRunGoogleAdsUpdaterToolset"
                        ELSE "GoogleAdsUpdaterToolset",
    tools |-> GoogleAdsGetterToolset
                \cup ( IF dry_run THEN DryRunGoogleAdsUpdaterToolset
                       ELSE GoogleAdsUpdaterToolset )
                \cup DynamicMultiAPIToolset
                \cup FirestoreToolset
                \cup SA360Toolset ]

\* the external system a tool writes to when its call goes through: Google
\* Ads (mutate calls), the SA360 sheet (values().update) or a Firestore
\* document (set, delete); "" for a tool that writes to none of them
Changes(tool) ==
  CASE tool \in GoogleAdsUpdaterToolset -> "google_ads"
    [] tool \in { "update_sa360_campaign_status",
                  "update_sa360_campaign_geolocation",
                  "update_sa360_campaign_budget" } -> "sa360_sheet"
    [] tool \in { "set_document", "delete_document" } -> "firestore"
    [] OTHER -> ""

\* the tools the agent is seen calling, one at most per invocation
CalledTools ==
  { "get_campaign_details", "update_campaign_status",
    "dry_run_update_campaign_status", "set_document", "delete_document",
    "update_sa360_campaign_status" }

\* the trail of a run before its first step
NoTrail ==
  [ steps |-> <<>>, invoked |-> <<>>, agents |-> <<>>, calls |-> <<>>,
    changed |-> {} ]

\* the AgenticRunLogs collection before a run: no record of it
NoRunLog == [ record |-> <<>>, failed_writes |-> 0 ]

\* the local variables of run_decision_agent before its first statement
NewFrame ==
  [ pc |-> "log_run_start", run_id |-> "", global_instruction |-> "",
    doc |-> <<>>, campaigns |-> <<>>, i |-> 1, collected |-> <<>>,
    outcome |-> "", exc |-> "", result |-> <<>> ]

\* run_decision_agent is not running
AgentIdle ==
  /\ args = [ customer_id |-> CUSTOMER, usecase |-> <<>>, dry_run |-> FALSE ]
  /\ runlog = NoRunLog
  /\ frame = [NewFrame EXCEPT !.pc = "idle"]
  /\ trail = NoTrail

\* the threads that call the action logger
Threads == 1..MaxThreads

\* the local state of one of the overlapping runs: where it is, its
\* dry_run flag, the number of campaigns configured for its customer, the
\* campaign being processed, whether the agent of that campaign has called
\* its tool, the records the run's own tool calls logged, and what the run
\* collected with get_actions() and returned
NewRun(campaigns, dry_run) ==
  [ pc |-> "start", dry_run |-> dry_run, campaigns |-> campaigns, i |-> 1,
    called |-> FALSE, own |-> <<>>, collected |-> <<>>, persisted |-> <<>> ]

\* no overlapping runs
RunsIdle ==
  runs = [ c \in ActingCustomers |-> [NewRun(0, FALSE) EXCEPT !.pc = "idle"] ]

\* no thread is in the action logger
LoggerIdle ==
  /\ pc = [ t \in Threads |-> "idle" ]
  /\ lock = 0
  /\ local = [ t \in Threads |-> <<>> ]
  /\ done = [ t \in Threads |-> <<>> ]
  /\ started = 0

Init ==
  /\ req \in Requests
  /\ env \in Envs(req)
  /\ actions = <<>>
  /\ last = NewCall("", "")
  /\ LoggerIdle
  /\ RunsIdle
  /\ AgentIdle

\* a real tool call: it ends as `call` and leaves the action log as it is
Real(call) ==
  /\ actions' = actions
  /\ last' = [call EXCEPT !.logged = Len(actions') - Len(actions)]
  /\ UNCHANGED <<req, env, loggerVars, agentVars, overlapVars>>

\* a dry-run tool call
Dry(d) ==
  /\ Len(actions) < MaxActions
  /\ actions' = d.log
  /\ last' = [d.call EXCEPT !.logged = Len(actions') - Len(actions)]
  /\ UNCHANGED <<req, env, loggerVars, agentVars, overlapVars>>

UpdateBiddingStrategy ==
  /\ req.tool = "update_bidding_strategy"
  /\ Real(update_bidding_strategy(req, env))

UpdatePortfolioBiddingStrategy ==
  /\ req.tool = "update_portfolio_bidding_strategy"
  /\ Real(update_portfolio_bidding_strategy(req, env))

UpdateCampaignStatus ==
  /\ req.tool = "update_campaign_status"
  /\ Real(update_campaign_status(req, env))

UpdateCampaignBudget ==
  /\ req.tool = "update_campaign_budget"
  /\ Real(update_campaign_budget(req, env))

UpdateSharedBudget ==
  /\ req.tool = "update_shared_budget"
  /\ Real(update_shared_budget(req, env))

UpdateCampaignGeoTargets ==
  /\ req.tool = "update_campaign_geo_targets"
  /\ Real(update_campaign_geo_targets(req, env))

UpdateAdGroupGeoTargets ==
  /\ req.tool = "update_ad_group_geo_targets"
  /\ Real(update_ad_group_geo_targets(req, env))

DryRunUpdateBiddingStrategy ==
  /\ req.tool = "update_bidding_strategy"
  /\ Dry(dry_run_update_bidding_strategy(req, actions))

DryRunUpdatePortfolioBiddingStrategy ==
  /\ req.tool = "update_portfolio_bidding_strategy"
  /\ Dry(dry_run_update_portfolio_bidding_strategy(req, actions))

DryRunUpdateCampaignStatus ==
  /\ req.tool = "update_campaign_status"
  /\ Dry(dry_run_update_campaign_status(req, actions))

DryRunUpdateCampaignBudget ==
  /\ req.tool = "update_campaign_budget"
  /\ Dry(dry_run_update_campaign_budget(req, actions))

DryRunUpdateSharedBudget ==
  /\ req.tool = "update_shared_budget"
  /\ Dry(dry_run_update_shared_budget(req, actions))

DryRunUpdateCampaignGeoTargets ==
  /\ req.tool = "update_campaign_geo_targets"
  /\ Dry(dry_run_update_campaign_geo_targets(req, actions))

DryRunUpdateAdGroupGeoTargets ==
  /\ req.tool = "update_ad_group_geo_targets"
  /\ Dry(dry_run_update_ad_group_geo_targets(req, actions))

ClearActions ==
  /\ actions # <<>>
  /\ actions' = clear_actions(actions)
  /\ UNCHANGED <<req, env, last, loggerVars, agentVars, overlapVars>>

Next ==
  \/ UpdateBiddingStrategy
  \/ UpdatePortfolioBiddingStrategy
  \/ UpdateCampaignStatus
  \/ UpdateCampaignBudget
  \/ UpdateSharedBudget
  \/ UpdateCampaignGeoTargets
  \/ UpdateAdGroupGeoTargets
  \/ DryRunUpdateBiddingStrategy
  \/ DryRunUpdatePortfolioBiddingStrategy
  \/ DryRunUpdateCampaignStatus
  \/ DryRunUpdateCampaignBudget
  \/ DryRunUpdateSharedBudget
  \/ DryRunUpdateCampaignGeoTargets
  \/ DryRunUpdateAdGroupGeoTargets
  \/ ClearActions

Spec == Init /\ [][Next]_vars

(***************************************************************************)
(* The action logger under concurrent callers (core/action_logger.py).     *)
(* A thread is idle or inside one call; `local` holds the arguments of     *)
(* that call, `done` the calls the thread has returned from, in order,     *)
(* each with what it returned.  `started` counts the calls made.           *)
(***************************************************************************)
\* the arguments of the k-th call of log_action made
LogArgs(k) ==
  [ tool_name |-> "tool", params |-> [ call |-> k ],
    description |-> << "call ", ToString(k) >>,
    simulated |-> (k % 2 = 0) ]

LoggerInit ==
  /\ req = NoRequest
  /\ env = EnvOK("SEARCH")
  /\ last = NewCall("", "")
  /\ actions \in { <<>>,
                    << ActionRecord("earlier", [ call |-> 0 ],
                                    << "left by an earlier run" >>, TRUE) >> }
  /\ LoggerIdle
  /\ RunsIdle
  /\ AgentIdle

\* a thread calls op
LoggerCall(t, op) ==
  /\ started < MaxCalls
  /\ started' = started + 1
  /\ pc' = [pc EXCEPT ![t] = op]
  /\ local' = [local EXCEPT ![t] = IF op = "log_action"
                                     THEN << LogArgs(started') >> ELSE <<>>]
  /\ UNCHANGED <<agentVars, req, env, last, actions, lock, done, overlapVars>>

CallLogAction(t) ==
  /\ pc[t] = "idle"
  /\ LoggerCall(t, "log_action")

CallGetActions(t) ==
  /\ pc[t] = "idle"
  /\ LoggerCall(t, "get_actions")

CallClearActions(t) ==
  /\ pc[t] = "idle"
  /\ LoggerCall(t, "clear_actions")

\* with _lock: _actions.append(action)
LogActionLocked(t) ==
  /\ pc[t] = "log_action"
  /\ lock = 0
  /\ lock' = t
  /\ LET a == local[t][1]
     IN  actions' = log_action(actions, a.tool_name, a.params,
                               a.description, a.simulated)
  /\ pc' = [pc EXCEPT ![t] = "log_action_return"]
  /\ UNCHANGED <<agentVars, req, env, last, local, done, started, overlapVars>>

\* leave the with block and return action
LogActionReturn(t) ==
  /\ pc[t] = "log_action_return"
  /\ lock' = 0
  /\ LET a == local[t][1]
     IN  done' = [done EXCEPT ![t] = Append(@,
                   [ op |-> "log_action",
                     ret |-> << ActionRecord(a.tool_name, a.params,
                                             a.description, a.simulated) >>,
                     seen |-> <<>> ])]
  /\ pc' = [pc EXCEPT ![t] = "idle"]
  /\ local' = [local EXCEPT ![t] = <<>>]
  /\ UNCHANGED <<agentVars, req, env, last, actions, started, overlapVars>>

\* with _lock: list(_actions)
GetActionsLocked(t) ==
  /\ pc[t] = "get_actions"
  /\ lock = 0
  /\ lock' = t
  /\ local' = [local EXCEPT ![t] = << list_copy(get_actions(actions)) >>]
  /\ pc' = [pc EXCEPT ![t] = "get_actions_return"]
  /\ UNCHANGED <<agentVars, req, env, last, actions, done, started, overlapVars>>

\* leave the with block and return the list
GetActionsReturn(t) ==
  /\ pc[t] = "get_actions_return"
  /\ lock' = 0
  /\ done' = [done EXCEPT ![t] = Append(@,
                 [ op |-> "get_actions", ret |-> local[t],
                   seen |-> Observed(local[t][1], actions) ])]
  /\ pc' = [pc EXCEPT ![t] = "idle"]
  /\ local' = [local EXCEPT ![t] = <<>>]
  /\ UNCHANGED <<agentVars, req, env, last, actions, started, overlapVars>>

\* with _lock: _actions.clear()
ClearActionsLocked(t) ==
  /\ pc[t] = "clear_actions"
  /\ lock = 0
  /\ lock' = t
  /\ actions' = clear_actions(actions)
  /\ pc' = [pc EXCEPT ![t] = "clear_actions_return"]
  /\ UNCHANGED <<agentVars, req, env, last, local, done, started, overlapVars>>

\* leave the with block and return None
ClearActionsReturn(t) ==
  /\ pc[t] = "clear_actions_return"
  /\ lock' = 0
  /\ done' = [done EXCEPT ![t] = Append(@,
                 [ op |-> "clear_actions", ret |-> <<>>, seen |-> <<>> ])]
  /\ pc' = [pc EXCEPT ![t] = "idle"]
  /\ UNCHANGED <<agentVars, req, env, last, actions, local, started, overlapVars>>

LoggerNext ==
  \E t \in Threads :
    \/ CallLogAction(t)
    \/ CallGetActions(t)
    \/ CallClearActions(t)
    \/ LogActionLocked(t)
    \/ LogActionReturn(t)
    \/ GetActionsLocked(t)
    \/ GetActionsReturn(t)
    \/ ClearActionsLocked(t)
    \/ ClearActionsReturn(t)

LoggerSpec == LoggerInit /\ [][LoggerNext]_vars

(***************************************************************************)
(* run_decision_agent (agents/decision_agent/agent.py) with the run log    *)
(* (core/run_logger.py) and the documents it reads                         *)
(***************************************************************************)
\* the usecase argument: None (the scheduler endpoint passes what the
\* payload has) or a string
UsecaseInputs == { <<>>, << "GoogleAds" >>, << "sa360" >> }

\* the id Firestore generates for a new run document
AutoId == "k3Xw9"

\* log_run_start: the store afterwards and the run id returned; `ok` tells
\* whether the Firestore write goes through
log_run_start(store, ok, customer_id, usecase, dry_run) ==
  IF ok
  THEN [ store |-> [store EXCEPT !.record =
                      << [ customer_id |-> customer_id, usecase |-> usecase,
                           dry_run |-> dry_run, status |-> "running",
                           actions |-> <<>>, summary |-> <<>>,
                           completions |-> 0 ] >>],
         run_id |-> AutoId ]
  ELSE [ store |-> [store EXCEPT !.failed_writes = @ + 1],
         run_id |-> "temp-" \o RunStamp ]

\* log_run_complete: the store afterwards; `all_actions` is None or a list
log_run_complete(store, ok, run_id, status, summary, all_actions) ==
  IF startswith(run_id, "temp-") THEN store
  ELSE IF ~ok THEN [store EXCEPT !.failed_writes = @ + 1]
  ELSE [store EXCEPT !.record =
          << [ @[1] EXCEPT !.status = status, !.summary = summary,
                           !.actions = IF all_actions = <<>> THEN @
                                       ELSE all_actions[1],
                           !.completions = @ + 1 ] >>]

\* what FirestoreToolset.get_document returns
NotFoundDoc == [ exists |-> FALSE, message |-> "Document not found" ]

ErrorDoc == [ exists |-> FALSE, error |-> "503 unavailable" ]

FoundDoc(data) == [ exists |-> TRUE, data |-> data ]

\* doc.get("data", {})
DataOf(doc) == IF "data" \in DOMAIN doc THEN doc.data ELSE <<>>

\* the CustomerInstructions documents a customer can have
InstructionDocs ==
  { NotFoundDoc, ErrorDoc, FoundDoc([ updated_by |-> "ops" ]),
    FoundDoc([ instruction |-> "" ]),
    FoundDoc([ instruction |-> "Pause campaigns when it rains." ]) }

\* a configured campaign: with a campaignId, or without one
CampaignEntry(i, has_id) ==
  IF has_id THEN [ campaignId |-> ToString(i), instruction |-> "rule" ]
  ELSE [ instruction |-> "rule" ]

CampaignLists ==
  UNION { { [ i \in 1..n |-> CampaignEntry(i, i \in with_id) ] :
              with_id \in SUBSET (1..n) } : n \in 0..MaxCampaigns }

\* the <usecase>Config documents a customer can have
ConfigDocs ==
  { NotFoundDoc, ErrorDoc, FoundDoc([ updated_by |-> "ops" ]) }
    \cup { FoundDoc([ campaigns |-> cs ]) : cs \in CampaignLists }

\* campaign.get("campaignId"): None or the id
CampaignIdOf(campaign) ==
  IF "campaignId" \in DOMAIN campaign THEN << campaign.campaignId >> ELSE <<>>

\* a step of the run, noted on the trail
Step(name) == [trail EXCEPT !.steps = Append(@, name)]

DecisionInit ==
  /\ args \in { [ customer_id |-> CUSTOMER, usecase |-> u, dry_run |-> d ] :
                 u \in UsecaseInputs, d \in BOOLEAN }
  /\ runlog = NoRunLog
  /\ frame = NewFrame
  /\ trail = NoTrail
  /\ actions \in { <<>>,
                    << ActionRecord("earlier", [ call |-> 0 ],
                                    << "left by an earlier run" >>, TRUE) >> }
  /\ req = NoRequest
  /\ env = EnvOK("SEARCH")
  /\ last = NewCall("", "")
  /\ LoggerIdle
  /\ RunsIdle

\* run_id = log_run_start(...)
LogRunStart ==
  /\ frame.pc = "log_run_start"
  /\ \E ok \in BOOLEAN :
       LET r == log_run_start(runlog, ok, args.customer_id,
                              IF args.usecase = <<>> THEN "GoogleAds"
                              ELSE args.usecase[1],
                              args.dry_run)
       IN  /\ runlog' = r.store
           /\ frame' = [frame EXCEPT !.run_id = r.run_id,
                                     !.pc = "clear_actions"]
  /\ trail' = Step("start")
  /\ UNCHANGED <<args, actions, req, env, last, loggerVars, overlapVars>>

\* a run start that goes on to step 1 without emptying the action list
ClearAtRunStart_skipped ==
  /\ frame.pc = "clear_actions"
  /\ frame' = [frame EXCEPT !.pc = "fetch_global_instruction"]
  /\ trail' = Step("logger.info")
  /\ UNCHANGED <<args, runlog, actions, req, env, last, loggerVars, overlapVars>>

\* clear_actions() at the start of the run
ClearAtRunStart ==
  /\ frame.pc = "clear_actions"
  /\ actions' = clear_actions(actions)
  /\ frame' = [frame EXCEPT !.pc = "fetch_global_instruction"]
  /\ trail' = Step("clear_actions")
  /\ UNCHANGED <<args, runlog, req, env, last, loggerVars, overlapVars>>

\* a gate that lets a run without instructions go on
InstructionGate_open(global_instruction) == "fetch_campaign_config"

\* if not global_instruction: abort; otherwise go on to step 2
InstructionGate(global_instruction) ==
  IF global_instruction = "" THEN "cancel" ELSE "fetch_campaign_config"

\* 1. Fetch Global Instructions: get_document raises (no Firestore client)
\* or returns a dict
FetchGlobalInstruction ==
  /\ frame.pc = "fetch_global_instruction"
  /\ \E raised \in BOOLEAN, doc \in InstructionDocs :
       LET data == DataOf(doc)
           global_instruction ==
             IF raised THEN ""
             ELSE IF "instruction" \in DOMAIN data THEN data.instruction
             ELSE ""
       IN  frame' = [frame EXCEPT
                       !.doc = IF raised THEN @ ELSE << doc >>,
                       !.global_instruction = global_instruction,
                       !.pc = InstructionGate(global_instruction)]
  /\ trail' = Step("fetch_global_instruction")
  /\ UNCHANGED <<args, runlog, actions, req, env, last, loggerVars, overlapVars>>

\* if not global_instruction: log_run_complete(cancelled) and return
CancelRun ==
  /\ frame.pc = "cancel"
  /\ \E ok \in BOOLEAN :
       runlog' = log_run_complete(runlog, ok, frame.run_id, "cancelled",
                                  << "No global instructions found" >>, <<>>)
  /\ frame' = [frame EXCEPT
                 !.pc = "returned", !.outcome = "return",
                 !.result = << [ run_id |-> frame.run_id,
                                 status |-> "cancelled", actions |-> <<>>,
                                 dry_run |-> args.dry_run ] >>]
  /\ trail' = Step("cancelled")
  /\ UNCHANGED <<args, actions, req, env, last, loggerVars, overlapVars>>

\* 2. Fetch Campaign Config.  With usecase None, usecase + "Config" raises
\* TypeError inside the try; the handler's logger.error reads `collection`,
\* which was never bound, and the UnboundLocalError leaves the function.
\* With a usecase, get_document (its client cached by step 1) returns a dict.
FetchCampaignConfig ==
  /\ frame.pc = "fetch_campaign_config"
  /\ \/ /\ args.usecase = <<>>
        /\ frame' = [frame EXCEPT !.pc = "raised", !.outcome = "raise",
                                  !.exc = "UnboundLocalError"]
     \/ /\ args.usecase # <<>>
        /\ \E doc \in ConfigDocs :
             LET ads_config == DataOf(doc)
                 campaigns == IF "campaigns" \in DOMAIN ads_config
                              THEN ads_config.campaigns ELSE <<>>
             IN  frame' = [frame EXCEPT
                             !.doc = << doc >>,
                             !.campaigns = campaigns,
                             !.pc = IF campaigns = <<>> THEN "no_campaigns"
                                    ELSE "loop"]
  /\ trail' = Step("fetch_campaign_config")
  /\ UNCHANGED <<args, runlog, actions, req, env, last, loggerVars, overlapVars>>

\* if not campaigns: log_run_complete(success) and return
CompleteNoCampaigns ==
  /\ frame.pc = "no_campaigns"
  /\ \E ok \in BOOLEAN :
       runlog' = log_run_complete(runlog, ok, frame.run_id, "success",
                                  << "No campaigns configured" >>, <<>>)
  /\ frame' = [frame EXCEPT
                 !.pc = "returned", !.outcome = "return",
                 !.result = << [ run_id |-> frame.run_id,
                                 status |-> "success", actions |-> <<>>,
                                 dry_run |-> args.dry_run ] >>]
  /\ trail' = Step("no_campaigns")
  /\ UNCHANGED <<args, actions, req, env, last, loggerVars, overlapVars>>

\* the frame after the loop body for campaigns[i], on to the next campaign
\* or past the loop
NextCampaign(f) ==
  [f EXCEPT !.i = @ + 1,
            !.pc = IF f.i + 1 > Len(f.campaigns) THEN "get_actions"
                   ELSE "loop"]

\* if not campaign_id: continue
SkipCampaign ==
  /\ frame.pc = "loop"
  /\ LET campaign_id == CampaignIdOf(frame.campaigns[frame.i])
     IN  campaign_id = <<>> \/ campaign_id = << "" >>
  /\ frame' = NextCampaign(frame)
  /\ trail' = Step("skip")
  /\ UNCHANGED <<args, runlog, actions, req, env, last, loggerVars, overlapVars>>

\* an agent invocation whose exception leaves the loop
AfterInvocation_uncaught(f, outcome) ==
  IF outcome = "raised"
  THEN [f EXCEPT !.pc = "raised", !.outcome = "raise", !.exc = "Exception"]
  ELSE NextCampaign(f)

\* the frame after the try block around the agent invocation: an exception
\* is logged and the loop continues
AfterInvocation(f, outcome) ==
  IF outcome = "raised" THEN NextCampaign(f) ELSE NextCampaign(f)

\* create_agent and runner.run_async for campaigns[i]: the agent calls one
\* tool of its toolset or none, and completes or raises.  A dry-run updater
\* tool logs its action; a real updater tool runs against the backend; a
\* Firestore or SA360 tool writes when its service is available.
InvokeAgent ==
  /\ frame.pc = "loop"
  /\ LET campaign_id == CampaignIdOf(frame.campaigns[frame.i])
         agent == create_agent(args.dry_run)
     IN  /\ campaign_id # <<>>
         /\ campaign_id # << "" >>
         /\ \E outcome \in { "completed", "raised" },
               tool \in (agent.tools \cap CalledTools) \cup { "" },
               available \in BOOLEAN :
              LET r == [NoRequest EXCEPT !.tool = "update_campaign_status",
                                         !.customer_id = args.customer_id,
                                         !.campaign_id = campaign_id[1],
                                         !.status = "PAUSED"]
                  dry == tool \in DryRunGoogleAdsUpdaterToolset
                  wrote ==
                    IF tool \in GoogleAdsUpdaterToolset
                    THEN LET call == update_campaign_status(r, env)
                         IN  call.outcome = "return" /\ call.submitted # <<>>
                    ELSE Changes(tool) # "" /\ available
              IN  /\ actions' =
                       IF dry THEN dry_run_update_campaign_status(r, actions).log
                       ELSE actions
                  /\ trail' = [Step("invoke_agent") EXCEPT
                                 !.invoked = Append(@,
                                    [ campaign_id |-> campaign_id[1],
                                      outcome |-> outcome ]),
                                 !.agents = Append(@, agent.updater_toolset),
                                 !.calls =
                                    IF tool = "" THEN @
                                    ELSE Append(@,
                                           [ at |-> Len(trail.steps) + 1,
                                             logged |-> dry ]),
                                 !.changed =
                                    IF wrote THEN @ \cup { Changes(tool) }
                                    ELSE @]
                  /\ frame' = AfterInvocation(frame, outcome)
  /\ UNCHANGED <<args, runlog, req, env, last, loggerVars, overlapVars>>

\* actions = get_actions()
CollectActions ==
  /\ frame.pc = "get_actions"
  /\ frame' = [frame EXCEPT !.collected = get_actions(actions),
                            !.pc = "log_run_complete"]
  /\ trail' = Step("collect_actions")
  /\ UNCHANGED <<args, runlog, actions, req, env, last, loggerVars, overlapVars>>

\* log_run_complete(success) with the collected actions, and return
CompleteRun ==
  /\ frame.pc = "log_run_complete"
  /\ LET action_count == Len(frame.collected)
         summary ==
           << "Processed ", ToString(Len(frame.campaigns)), " campaigns" >>
             \o IF args.dry_run
                THEN << " (dry-run: ", ToString(action_count),
                        " simulated actions)" >>
                ELSE << " (", ToString(action_count), " actions performed)" >>
     IN  \E ok \in BOOLEAN :
           runlog' = log_run_complete(runlog, ok, frame.run_id, "success",
                                      summary, << frame.collected >>)
  /\ frame' = [frame EXCEPT
                 !.pc = "returned", !.outcome = "return",
                 !.result = << [ run_id |-> frame.run_id,
                                 status |-> "success",
                                 dry_run |-> args.dry_run,
                                 campaigns_processed |-> Len(frame.campaigns),
                                 actions |-> frame.collected ] >>]
  /\ trail' = Step("complete")
  /\ UNCHANGED <<args, actions, req, env, last, loggerVars, overlapVars>>

DecisionNext ==
  \/ LogRunStart
  \/ ClearAtRunStart
  \/ FetchGlobalInstruction
  \/ CancelRun
  \/ FetchCampaignConfig
  \/ CompleteNoCampaigns
  \/ SkipCampaign
  \/ InvokeAgent
  \/ CollectActions
  \/ CompleteRun

DecisionSpec == DecisionInit /\ [][DecisionNext]_vars

(***************************************************************************)
(* Overlapping invocations of run_decision_agent in one process (two       *)
(* requests to /scheduler/init_and_run).  A coroutine gives up control     *)
(* only at an await, and the only awaits of run_decision_agent are         *)
(* create_session and runner.run_async inside the loop body; everything    *)
(* between two awaits is one step.  All runs share the list _actions.      *)
(***************************************************************************)
OverlapInit ==
  /\ runs \in [ ActingCustomers ->
                  { NewRun(n, d) : n \in 0..MaxCampaigns, d \in BOOLEAN } ]
  /\ actions = <<>>
  /\ req = NoRequest
  /\ env = EnvOK("SEARCH")
  /\ last = NewCall("", "")
  /\ LoggerIdle
  /\ AgentIdle

\* what the run of customer c returns and persists when it completes with
\* the list `collected`
Completed(run, collected) ==
  [run EXCEPT !.pc = "returned", !.collected = collected,
              !.persisted = << collected >>]

\* from the call to the first await: log_run_start, clear_actions, the two
\* Firestore reads and, with a campaign configured, create_agent up to
\* create_session; without campaigns the run completes at once
RunStarts(c) ==
  /\ runs[c].pc = "start"
  /\ actions' = clear_actions(actions)
  /\ runs' = [runs EXCEPT ![c] =
                IF runs[c].campaigns = 0
                THEN [Completed(@, <<>>) EXCEPT !.persisted = <<>>]
                ELSE [@ EXCEPT !.pc = "run_async"]]
  /\ UNCHANGED <<req, env, last, loggerVars, agentVars>>

\* inside runner.run_async: the agent of the current campaign calls the
\* status tool of its updater toolset; the dry-run tool logs the action
AgentCallsTool(c) ==
  /\ runs[c].pc = "run_async"
  /\ ~runs[c].called
  /\ LET r == [NoRequest EXCEPT !.tool = "update_campaign_status",
                                !.customer_id = c,
                                !.campaign_id = ToString(runs[c].i),
                                !.status = "PAUSED"]
         logged == dry_run_update_campaign_status(r, actions).log
     IN  IF runs[c].dry_run
         THEN /\ actions' = logged
              /\ runs' = [runs EXCEPT ![c].called = TRUE,
                                      ![c].own = Append(@, logged[Len(logged)])]
         ELSE /\ actions' = actions
              /\ runs' = [runs EXCEPT ![c].called = TRUE]
  /\ UNCHANGED <<req, env, last, loggerVars, agentVars>>

\* run_async of the current campaign ends (or raises and is caught) and
\* the loop goes on to the next campaign, up to its create_session
NextCampaignStarts(c) ==
  /\ runs[c].pc = "run_async"
  /\ runs[c].i < runs[c].campaigns
  /\ runs' = [runs EXCEPT ![c].i = @ + 1, ![c].called = FALSE]
  /\ UNCHANGED <<actions, req, env, last, loggerVars, agentVars>>

\* run_async of the last campaign ends: get_actions(), log_run_complete
\* and return
RunCompletes(c) ==
  /\ runs[c].pc = "run_async"
  /\ runs[c].i = runs[c].campaigns
  /\ runs' = [runs EXCEPT ![c] = Completed(@, get_actions(actions))]
  /\ UNCHANGED <<actions, req, env, last, loggerVars, agentVars>>

OverlapNext ==
  \E c \in ActingCustomers :
    \/ RunStarts(c)
    \/ AgentCallsTool(c)
    \/ NextCampaignStarts(c)
    \/ RunCompletes(c)

OverlapSpec == OverlapInit /\ [][OverlapNext]_vars

(***************************************************************************)
(* Properties                                                              *)
(***************************************************************************)
\* the call returned a result with success = True
Succeeded(call) ==
  /\ call.outcome = "return"
  /\ "success" \in DOMAIN call.result
  /\ call.result["success"] = TRUE

\* the last call was the real tool of that name
RealCallOf(tool) == last.tool = tool /\ last.mode = "real"

\* C1: when update_bidding_strategy reaches validation and
\* validate_strategy_change returns false (unknown channel types included),
\* the call raises a ValueError whose message names the requested strategy
\* and the channel type, and no mutate call is made.
C1_DisallowedStrategyRejected ==
  ( /\ RealCallOf("update_bidding_strategy")
    /\ last.is_valid # <<>>
    /\ ~validate_strategy_change(env.campaign, req.strategy_type) )
  => /\ last.outcome = "raise"
     /\ last.exc = "ValueError"
     /\ req.strategy_type \in Range(last.msg)
     /\ env.campaign \in Range(last.msg)
     /\ last.submitted = <<>>

\* a strategy with valid details was requested on a channel type without a
\* table entry, and rejected
C1_Witness ==
  /\ RealCallOf("update_bidding_strategy")
  /\ env.campaign = "SHOPPING"
  /\ req.strategy_type = "MAXIMIZE_CONVERSIONS"
  /\ last.is_valid = << FALSE >>
  /\ last.outcome = "raise"

\* C2: validate_strategy_change is true exactly when the upper-cased channel
\* has an entry in ALLOWED_STRATEGIES that lists the upper-cased strategy;
\* the PROHIBITED_STRATEGIES check never changes the result.
C2_ValidateIsAllowedLookup ==
  ( RealCallOf("update_bidding_strategy") /\ last.is_valid # <<>> )
  => last.is_valid[1]
       = ( /\ upper(env.campaign) \in DOMAIN ALLOWED_STRATEGIES
           /\ upper(req.strategy_type)
                \in Range(ALLOWED_STRATEGIES[upper(env.campaign)]) )

\* a lower-case strategy on a lower-case channel was accepted
C2_Witness ==
  /\ RealCallOf("update_bidding_strategy")
  /\ env.campaign = "search"
  /\ req.strategy_type = "maximize_conversions"
  /\ last.is_valid = << TRUE >>

\* the strategy types _apply_bidding_strategy_details recognizes, with the
\* union variant each one names
VariantOf ==
  [ MAXIMIZE_CONVERSIONS |-> "maximize_conversions",
    MAXIMIZE_CONVERSION_VALUE |-> "maximize_conversion_value",
    TARGET_SPEND |-> "target_spend",
    MANUAL_CPC |-> "manual_cpc",
    TARGET_IMPRESSION_SHARE |-> "target_impression_share",
    MANUAL_CPM |-> "manual_cpm",
    MANUAL_CPV |-> "manual_cpv",
    PERCENT_CPC |-> "percent_cpc",
    COMMISSION |-> "commission",
    TARGET_CPA |-> "target_cpa",
    TARGET_ROAS |-> "target_roas" ]

\* the last call ran _apply_bidding_strategy_details for a recognized type
BuilderRan ==
  /\ last.mode = "real"
  /\ last.applied # <<>>
  /\ req.strategy_type \in DOMAIN VariantOf

\* the details bag of the request has the key
Given(key) ==
  /\ Len(req.strategy_details) = 1
  /\ key \in DOMAIN req.strategy_details[1]

\* the variants of the sub-fields the builder assigned
WrittenVariants(obj) == { k[1] : k \in DOMAIN obj.sub }

\* C3 as stated: for every recognized strategy type and every details bag
\* the builder, run on a fresh target, activates exactly the union variant
\* the strategy type names and writes no sub-field of another variant.
C3_ExactlyOneVariant ==
  BuilderRan
  => /\ last.target[1].active = { VariantOf[req.strategy_type] }
     /\ WrittenVariants(last.target[1]) \subseteq { VariantOf[req.strategy_type] }

\* C3 as amended: the builder touches no variant other than the one the
\* strategy type names and writes no sub-field of another variant; it
\* activates that variant in every call except TARGET_IMPRESSION_SHARE
\* with location or location_fraction_micros missing, where it returns
\* false and activates none.
C3_AtMostTheNamedVariant ==
  BuilderRan
  => LET t == last.target[1]
         v == VariantOf[req.strategy_type]
         early == /\ req.strategy_type = "TARGET_IMPRESSION_SHARE"
                  /\ ~(Given("location") /\ Given("location_fraction_micros"))
     IN  /\ WrittenVariants(t) \subseteq { v }
         /\ t.active = IF early THEN {} ELSE { v }
         /\ early => last.applied = << FALSE >> /\ DOMAIN t.sub = {}

\* PERCENT_CPC was built with both of its details on a HOTEL campaign
C3_Witness ==
  /\ RealCallOf("update_bidding_strategy")
  /\ req.strategy_type = "PERCENT_CPC"
  /\ Given("enhanced_cpc_enabled")
  /\ Given("cpc_bid_ceiling_micros")
  /\ last.applied = << TRUE >>
  /\ last.target[1].active = { "percent_cpc" }
  /\ Cardinality(DOMAIN last.target[1].sub) = 2

\* the operation the last call submitted
SubmittedOp == last.submitted[1].operations[1]

\* a strategy mutation was submitted by one of the two orchestrators
StrategySubmitted ==
  /\ last.mode = "real"
  /\ last.tool \in { "update_bidding_strategy",
                     "update_portfolio_bidding_strategy" }
  /\ last.submitted # <<>>

\* the paths of the fields assigned on a mutation object (its resource_name
\* identifies the object and is not a masked field)
AssignedPaths(obj) ==
  { k[1] \o "." \o k[2] : k \in DOMAIN obj.sub } \cup DOMAIN obj.top

\* C4: in every strategy mutation the orchestrators submit, the set of paths
\* in the update mask equals the set of fields assigned on the mutation
\* object.
C4_MaskEqualsAssignedFields ==
  StrategySubmitted
  => Range(SubmittedOp.update_mask) = AssignedPaths(SubmittedOp.update)

\* no duplicates, and in PathOrder
IsSortedSet(paths) == paths = SortedSet(paths)

\* C5: the field-mask path list attached by update_bidding_strategy and by
\* update_portfolio_bidding_strategy is duplicate-free and sorted.
C5_MaskSortedAndDeduplicated ==
  StrategySubmitted => IsSortedSet(SubmittedOp.update_mask)

\* the location detail of the request, upper-cased
LocationGiven == upper(req.strategy_details[1]["location"])

\* the builder ran for TARGET_IMPRESSION_SHARE with a location detail
ImpressionShareRan ==
  /\ BuilderRan
  /\ req.strategy_type = "TARGET_IMPRESSION_SHARE"
  /\ Given("location")

RecognizedKeys ==
  [ MAXIMIZE_CONVERSIONS |-> { "target_cpa_micros" },
    MAXIMIZE_CONVERSION_VALUE |-> { "target_roas" },
    TARGET_SPEND |-> { "cpc_bid_ceiling_micros" },
    MANUAL_CPC |-> { "enhanced_cpc_enabled" },
    TARGET_IMPRESSION_SHARE |-> { "location", "location_fraction_micros",
                                  "cpc_bid_ceiling_micros" },
    MANUAL_CPM |-> {},
    MANUAL_CPV |-> {},
    PERCENT_CPC |-> { "cpc_bid_ceiling_micros", "enhanced_cpc_enabled" },
    COMMISSION |-> { "commission_rate_micros" },
    TARGET_CPA |-> { "target_cpa_micros" },
    TARGET_ROAS |-> { "target_roas" } ]

\* the detail keys a strategy type requires
RequiredKeys ==
  [ st \in DOMAIN VariantOf |->
      CASE st = "TARGET_IMPRESSION_SHARE" ->
             { "location", "location_fraction_micros" }
        [] st = "TARGET_CPA" -> { "target_cpa_micros" }
        [] st = "TARGET_ROAS" -> { "target_roas" }
        [] OTHER -> {} ]

\* a required key of the requested strategy type is absent
RequiredMissing ==
  /\ req.strategy_type \in DOMAIN VariantOf
  /\ \E k \in RequiredKeys[req.strategy_type] : ~Given(k)

\* the details bag without the keys the strategy type does not recognize
OnlyRecognized(details, st) ==
  IF Len(details) = 0 THEN details
  ELSE << [ k \in DOMAIN details[1] \cap RecognizedKeys[st] |-> details[1][k] ] >>

\* C7: when a required detail key is absent the builder returns false and the
\* orchestrator fails without submitting a mutation; when the required keys
\* are present and valid the builder returns true; keys the strategy type
\* does not recognize change neither the mutation object nor the mask paths.
C7_RequiredAndUnrecognizedKeys ==
  /\ ( /\ last.mode = "real"
       /\ last.tool \in { "update_bidding_strategy",
                          "update_portfolio_bidding_strategy" }
       /\ RequiredMissing )
     => ~Succeeded(last) /\ last.submitted = <<>>
  /\ BuilderRan
     => /\ RequiredMissing => last.applied = << FALSE >>
        /\ ( /\ RequiredKeys[req.strategy_type] # {}
             /\ ~RequiredMissing
             /\ Given("location")
                  => LocationGiven \in TargetImpressionShareLocation )
           => last.applied = << TRUE >>
        /\ LET b == _apply_bidding_strategy_details(
                      FreshTarget(last.target[1].resource_name),
                      req.strategy_type, <<>>,
                      OnlyRecognized(req.strategy_details, req.strategy_type))
           IN  /\ last.applied = << b.ret >>
               /\ last.target[1] = b.obj
               /\ last.accum = b.paths

\* a portfolio TARGET_CPA request carrying only other keys was refused
C7_Witness ==
  /\ RealCallOf("update_portfolio_bidding_strategy")
  /\ req.strategy_type = "TARGET_CPA"
  /\ Given("unrecognized_key")
  /\ Given("target_roas")
  /\ ~Given("target_cpa_micros")
  /\ last.applied = << FALSE >>
  /\ last.outcome = "raise"

\* C8: called with a portfolio reference string (one starting with
\* "customers/") for a campaign whose channel type is known,
\* update_bidding_strategy submits a mutation whose campaign.bidding_strategy
\* is that string, whose mask is exactly ["bidding_strategy"], and in which
\* no union variant is touched.
C8_PortfolioReferenceIsLinked ==
  ( /\ RealCallOf("update_bidding_strategy")
    /\ startswith(req.strategy_type, "customers/")
    /\ env.client /\ env.search = "ok"
    /\ upper(env.campaign) \in DOMAIN ALLOWED_STRATEGIES )
  => /\ Len(last.submitted) = 1
     /\ "bidding_strategy" \in DOMAIN SubmittedOp.update.top
     /\ SubmittedOp.update.top["bidding_strategy"] = req.strategy_type
     /\ SubmittedOp.update_mask = << "bidding_strategy" >>
     /\ SubmittedOp.update.active = {}

\* C9: every dry-run tool call appends exactly one Action with
\* simulated = True, and every real tool call that performs its mutation
\* appends exactly one Action whose simulated flag is False.
C9_OneActionPerInvocation ==
  /\ ( last.tool \in UpdaterTools /\ last.mode = "dry" )
     => /\ last.logged = 1
        /\ actions # <<>> => actions[Len(actions)].simulated = TRUE
  /\ ( last.tool \in UpdaterTools /\ last.mode = "real" /\ Succeeded(last)
       /\ last.submitted # <<>> )
     => last.logged = 1

\* the backend has the campaign with a channel type, and accepts every
\* mutation
AcceptingBackend ==
  /\ env.client /\ env.search = "ok" /\ env.backend = "accept"
  /\ env.campaign \in ChannelInputs
  /\ env.budget # ""

\* the dry-run counterpart of the pending request, run on the current log
DryCounterpart ==
  CASE req.tool = "update_campaign_status" ->
         dry_run_update_campaign_status(req, actions)
    [] req.tool = "update_campaign_budget" ->
         dry_run_update_campaign_budget(req, actions)
    [] req.tool = "update_campaign_geo_targets" ->
         dry_run_update_campaign_geo_targets(req, actions)
    [] req.tool = "update_ad_group_geo_targets" ->
         dry_run_update_ad_group_geo_targets(req, actions)
    [] req.tool = "update_bidding_strategy" ->
         dry_run_update_bidding_strategy(req, actions)
    [] req.tool = "update_shared_budget" ->
         dry_run_update_shared_budget(req, actions)
    [] req.tool = "update_portfolio_bidding_strategy" ->
         dry_run_update_portfolio_bidding_strategy(req, actions)

\* C10: against a backend that accepts every well-formed mutation, the
\* dry-run tool returns a success result exactly when the real tool called
\* with the same arguments does.
C10_DryRunSameOutcomeKind ==
  ( last.tool \in UpdaterTools /\ last.mode = "real" /\ AcceptingBackend )
  => ( Succeeded(last) <=> Succeeded(DryCounterpart.call) )

\* the last call was a dry-run tool
DryCall == last.tool \in UpdaterTools /\ last.mode = "dry"

\* the newest record of the action log
NewestAction == actions[Len(actions)]

\* what the tools do, as the name of each real tool function has it after
\* "update_"
Operations ==
  { "campaign_status", "campaign_budget", "campaign_geo_targets",
    "ad_group_geo_targets", "bidding_strategy", "shared_budget",
    "portfolio_bidding_strategy" }

\* the arguments of a request, under the parameter names of its real tool
Arguments(r) ==
  CASE r.tool = "update_campaign_status" ->
         [ customer_id |-> r.customer_id, campaign_id |-> r.campaign_id,
           status |-> r.status ]
    [] r.tool = "update_campaign_budget" ->
         [ customer_id |-> r.customer_id, campaign_id |-> r.campaign_id,
           new_budget_micros |-> r.new_budget_micros ]
    [] r.tool = "update_campaign_geo_targets" ->
         [ customer_id |-> r.customer_id, campaign_id |-> r.campaign_id,
           location_ids |-> r.location_ids, negative |-> r.negative ]
    [] r.tool = "update_ad_group_geo_targets" ->
         [ customer_id |-> r.customer_id, ad_group_id |-> r.ad_group_id,
           location_ids |-> r.location_ids, negative |-> r.negative ]
    [] r.tool = "update_bidding_strategy" ->
         [ customer_id |-> r.customer_id, campaign_id |-> r.campaign_id,
           strategy_type |-> r.strategy_type,
           strategy_details |-> r.strategy_details ]
    [] r.tool = "update_shared_budget" ->
         [ customer_id |-> r.customer_id,
           budget_resource_name |-> r.resource_name,
           new_amount_micros |-> r.new_budget_micros ]
    [] r.tool = "update_portfolio_bidding_strategy" ->
         [ customer_id |-> r.customer_id,
           bidding_strategy_resource_name |-> r.resource_name,
           strategy_type |-> r.strategy_type,
           strategy_details |-> r.strategy_details ]

\* what C11 says of a dry-run call apart from the tool name: one record
\* appended, flagged simulated, holding the call's arguments; a result
\* with success and dry_run true; no client, query or mutation
DryRunLogsAndSimulates ==
  /\ last.logged = 1
  /\ actions # <<>>
       => /\ NewestAction.simulated = TRUE
          /\ NewestAction.params = Arguments(req)
  /\ Succeeded(last)
  /\ "dry_run" \in DOMAIN last.result
  /\ last.result["dry_run"] = TRUE
  /\ last.clients = 0
  /\ last.queries = 0
  /\ last.submitted = <<>>

ReturnedCalls(t, op) == { i \in 1..Len(done[t]) : done[t][i].op = op }

\* thread t alone has used the logger: it called clear_actions, then only
\* log_action, then get_actions, and has returned from all of them
ClearLogsGet(t) ==
  /\ \A u \in Threads : pc[u] = "idle"
  /\ \A u \in Threads \ {t} : done[u] = <<>>
  /\ started = Len(done[t])
  /\ Len(done[t]) >= 2
  /\ done[t][1].op = "clear_actions"
  /\ done[t][Len(done[t])].op = "get_actions"
  /\ \A i \in 2..(Len(done[t]) - 1) : done[t][i].op = "log_action"

\* C12: in a single thread, clear_actions() followed by N log_action()
\* calls followed by get_actions() returns a list of exactly N actions, in
\* the order the log_action calls were made, each equal to the record its
\* log_action call returned.
C12_ClearLogGetInCallOrder ==
  \A t \in Threads :
    ClearLogsGet(t)
    => LET n == Len(done[t])
           got == done[t][n].seen
       IN  /\ Len(got) = n - 2
           /\ \A i \in 1..(n - 2) : got[i] = done[t][i + 1].ret[1]

\* thread 1 cleared a log that held an earlier record, logged twice and
\* got the two records
C12_Witness ==
  /\ ClearLogsGet(1)
  /\ Len(done[1]) = 4
  /\ Len(done[1][4].seen) = 2
  /\ done[1][4].seen[1].params = [ call |-> 2 ]
  /\ done[1][4].seen[2].params = [ call |-> 3 ]

\* a is a prefix of b
IsPrefix(a, b) == Len(a) <= Len(b) /\ SubSeq(b, 1, Len(a)) = a

\* no thread has called clear_actions
NoClearCalled ==
  \A t \in Threads :
    /\ pc[t] \notin { "clear_actions", "clear_actions_return" }
    /\ ReturnedCalls(t, "clear_actions") = {}

\* the positions of the log that hold the record
PositionsOf(record) == { i \in 1..Len(actions) : actions[i] = record }

\* the records in the log that a log_action call of this behaviour made
LoggedHere == { i \in 1..Len(actions) : actions[i].tool = "tool" }

\* C13: under any interleaving of threads calling log_action and
\* get_actions with no clear_actions, no appended action is lost or
\* duplicated (the record of every returned log_action call is in the log
\* exactly once, and once all calls have returned the log holds one entry
\* per call), every get_actions result is a prefix of the log from then on,
\* and a list returned by get_actions is never changed by later log_action
\* or clear_actions calls.
C13_NoLossNoDuplicateStableSnapshots ==
  /\ NoClearCalled
     => /\ \A t \in Threads : \A i \in ReturnedCalls(t, "log_action") :
              Cardinality(PositionsOf(done[t][i].ret[1])) = 1
        /\ (\A t \in Threads : pc[t] = "idle")
             => /\ Cardinality(LoggedHere) = started
                     - Cardinality(UNION { { <<t, i>> :
                                             i \in ReturnedCalls(t, "get_actions") } :
                                           t \in Threads })
        /\ \A t \in Threads : \A i \in ReturnedCalls(t, "get_actions") :
              IsPrefix(done[t][i].seen, actions)
  /\ \A t \in Threads : \A i \in ReturnedCalls(t, "get_actions") :
        Observed(done[t][i].ret[1], actions) = done[t][i].seen

\* two threads have logged and a get_actions in between returned one of
\* the two records, before the other was appended
C13_Witness ==
  /\ NoClearCalled
  /\ \A t \in Threads : pc[t] = "idle"
  /\ ReturnedCalls(1, "log_action") # {}
  /\ ReturnedCalls(2, "log_action") # {}
  /\ Cardinality(LoggedHere) = 2
  /\ \E i \in ReturnedCalls(2, "get_actions") :
        /\ Cardinality({ j \in 1..Len(done[2][i].seen) :
                           done[2][i].seen[j].tool = "tool" }) = 1
        /\ Len(done[2][i].seen) < Len(actions)

\* the run has returned or has been left by an exception
Terminal == frame.pc \in { "returned", "raised" }

\* the step is on the trail of the run
Took(step) == \E k \in 1..Len(trail.steps) : trail.steps[k] = step

\* the ids of the campaigns the agent was invoked for, in order
InvokedIds == [ k \in 1..Len(trail.invoked) |-> trail.invoked[k].campaign_id ]

\* the campaignIds configured in the list, in order
RECURSIVE ConfiguredIds(_)
ConfiguredIds(campaigns) ==
  IF campaigns = <<>> THEN <<>>
  ELSE LET campaign_id == CampaignIdOf(Head(campaigns))
       IN  (IF campaign_id = <<>> \/ campaign_id = << "" >> THEN <<>>
            ELSE campaign_id) \o ConfiguredIds(Tail(campaigns))

\* C14: a failure while processing one campaign never prevents the later
\* campaigns from being processed: whichever invocations raise, the agent is
\* invoked once for each campaign that has a campaignId, in configuration
\* order, no exception leaves the loop, and the run returns status
\* "success" (which is also the status written to the run log).
C14_CampaignFailureDoesNotStopLoop ==
  frame.campaigns # <<>>
  => /\ frame.pc # "raised"
     /\ InvokedIds
          = ConfiguredIds(SubSeq(frame.campaigns, 1, frame.i - 1))
     /\ frame.pc = "returned"
          => /\ InvokedIds = ConfiguredIds(frame.campaigns)
             /\ frame.result[1].status = "success"
             /\ ( runlog.record # <<>> /\ runlog.failed_writes = 0 )
                  => runlog.record[1].status = "success"

\* three campaigns were configured, the invocation for the second raised,
\* and the run went on to the third and returned success
C14_Witness ==
  /\ frame.pc = "returned"
  /\ Len(frame.campaigns) = 3
  /\ Len(trail.invoked) = 3
  /\ trail.invoked[1].outcome = "completed"
  /\ trail.invoked[2].outcome = "raised"
  /\ trail.invoked[3] = [ campaign_id |-> "3", outcome |-> "completed" ]
  /\ frame.result[1].status = "success"

\* the place of a step in the order of the run
StepRank(step) ==
  CASE step = "start" -> 1
    [] step = "clear_actions" -> 2
    [] step = "fetch_global_instruction" -> 3
    [] step = "cancelled" -> 4
    [] step = "fetch_campaign_config" -> 4
    [] step = "no_campaigns" -> 5
    [] step \in { "skip", "invoke_agent" } -> 5
    [] step = "collect_actions" -> 6
    [] step = "complete" -> 7

\* the steps of the loop body taken so far
LoopSteps ==
  { k \in 1..Len(trail.steps) : trail.steps[k] \in { "skip", "invoke_agent" } }

\* C15: the run follows the order start, fetch global instruction, fetch
\* campaign config, per-campaign invocations, collect actions, complete.
\* With the global instruction empty or not fetched it ends cancelled
\* without fetching the config or invoking an agent; with an empty campaign
\* list it ends in success without invoking an agent; no step is entered
\* twice (the loop body runs once per configured campaign).
C15_LinearRun ==
  /\ ( Took("fetch_global_instruction") /\ frame.global_instruction = "" )
     => /\ ~Took("fetch_campaign_config")
        /\ trail.invoked = <<>>
        /\ frame.pc \in { "cancel", "returned" }
        /\ frame.pc = "returned" => frame.result[1].status = "cancelled"
  /\ ( Took("fetch_campaign_config") /\ frame.pc # "raised"
       /\ frame.campaigns = <<>> )
     => /\ trail.invoked = <<>>
        /\ LoopSteps = {}
        /\ frame.pc \in { "no_campaigns", "returned" }
        /\ frame.pc = "returned" => frame.result[1].status = "success"
  /\ \A j, k \in 1..Len(trail.steps) :
       j < k => \/ StepRank(trail.steps[j]) < StepRank(trail.steps[k])
                \/ { j, k } \subseteq LoopSteps
  /\ Cardinality(LoopSteps) <= Len(frame.campaigns)
  /\ Took("complete") => Cardinality(LoopSteps) = Len(frame.campaigns)

\* the instruction document had an empty instruction and the run returned
\* cancelled after three steps and the cancellation
C15_Witness ==
  /\ frame.pc = "returned"
  /\ frame.doc = << FoundDoc([ instruction |-> "" ]) >>
  /\ trail.steps = << "start", "clear_actions", "fetch_global_instruction",
                      "cancelled" >>
  /\ frame.result[1].status = "cancelled"

\* every write to the run log has gone through
StoreUp == runlog.failed_writes = 0

\* C16: every invocation of run_decision_agent, usecase None included,
\* creates the run record with status "running" and writes a terminal
\* status to it exactly once before it returns or fails (stated for runs in
\* which the run-log store accepts every write).
C16_RunRecordCompletedExactlyOnce ==
  ( StoreUp /\ Took("start") )
  => /\ runlog.record # <<>>
     /\ runlog.record[1].completions <= 1
     /\ ~Terminal
          => runlog.record[1].status \in { "running", "success", "cancelled" }
     /\ Terminal
          => /\ runlog.record[1].status \in { "success", "cancelled", "error" }
             /\ runlog.record[1].completions = 1

\* the campaign configuration could not be fetched: the read returned an
\* error, or the fetch raised
ConfigFetchFailed ==
  /\ Took("fetch_campaign_config")
  /\ \/ frame.pc = "raised"
     \/ frame.doc = << ErrorDoc >>

\* C17: a whole-run failure such as a failure to fetch the campaign
\* configuration ends the run with run-record status "error", while
\* per-campaign failures end in status "success".
C17_WholeRunFailureIsError ==
  ( StoreUp /\ Terminal /\ runlog.record # <<>> )
  => /\ ConfigFetchFailed => runlog.record[1].status = "error"
     /\ ( /\ frame.pc = "returned"
          /\ \E k \in 1..Len(trail.invoked) :
               trail.invoked[k].outcome = "raised" )
        => runlog.record[1].status = "success"

\* the last call was the real tool of one of the names, it submitted its
\* mutation and the backend rejected it
Rejected(tools) ==
  /\ last.mode = "real"
  /\ last.tool \in tools
  /\ last.submitted # <<>>
  /\ env.backend = "reject"

\* the structured errors held by the failure value of a call itself.  A
\* RuntimeError holds its message string only; the GoogleAdsException it
\* was raised from is its __cause__.
StructuredErrors(call) ==
  IF call.outcome = "raise" /\ call.exc = "GoogleAdsException"
       /\ call.cause # <<>>
  THEN call.cause[1].errors
  ELSE <<>>

\* C18: when the backend rejects the mutation submitted by
\* update_bidding_strategy or update_portfolio_bidding_strategy, the failure
\* that reaches the caller holds the backend's list of structured errors
\* unchanged, one entry per backend error, not only a flattened message.
C18_RejectionCarriesStructuredErrors ==
  Rejected({ "update_bidding_strategy", "update_portfolio_bidding_strategy" })
  => /\ ~Succeeded(last)
     /\ StructuredErrors(last) = env.failure.errors
     /\ Len(StructuredErrors(last)) = Len(env.failure.errors)

\* the text each tool puts in front of the backend failure
FailureTextOf ==
  [ update_bidding_strategy |-> "Failed to update bidding strategy",
    update_shared_budget |-> "Failed to update shared budget" ]

\* C19: when the backend rejects the mutation, update_bidding_strategy and
\* update_shared_budget return a result with success = False and an error
\* message made of the operation's failure text and the backend failure
\* with its error codes, instead of ending without a result.
C19_RejectionReturnsErrorResult ==
  Rejected({ "update_bidding_strategy", "update_shared_budget" })
  => /\ last.outcome = "return"
     /\ "success" \in DOMAIN last.result
     /\ last.result["success"] = FALSE
     /\ "error" \in DOMAIN last.result
     /\ last.result["error"]
          = << FailureTextOf[last.tool] \o ": ", BackendFailure(env) >>

\* the resource names of a collection that belong to the customer
OwnResources(customer_id, collection) ==
  { "customers/" \o customer_id \o "/" \o collection \o "/" \o id :
      id \in ResourceIds }

\* the collection a tool updates by resource name
CollectionOf ==
  [ update_shared_budget |-> "campaignBudgets",
    update_portfolio_bidding_strategy |-> "biddingStrategies" ]

\* C20: update_shared_budget and update_portfolio_bidding_strategy submit a
\* mutation only for a resource name that belongs to the acting customer:
\* for a resource name that does not start with
\* "customers/<customer_id>/campaignBudgets/" (respectively
\* ".../biddingStrategies/") the call fails and no mutation is issued, and
\* a mutation that is issued updates the resource named in the call.
C20_ResourceScopedToCustomer ==
  ( last.mode = "real" /\ last.tool \in DOMAIN CollectionOf )
  => /\ req.resource_name
          \notin OwnResources(req.customer_id, CollectionOf[last.tool])
        => /\ last.outcome = "raise"
           /\ last.submitted = <<>>
     /\ last.submitted # <<>>
        => /\ req.resource_name
                \in OwnResources(req.customer_id, CollectionOf[last.tool])
           /\ SubmittedOp.update.resource_name = req.resource_name

\* customer 1 asked to update a budget of customer 12 on a working backend
\* and was refused with a ValueError before any mutation
C20_Witness ==
  /\ RealCallOf("update_shared_budget")
  /\ req.customer_id = "1"
  /\ req.resource_name = "customers/12/campaignBudgets/7"
  /\ env.client /\ env.backend = "accept"
  /\ last.outcome = "raise"
  /\ last.exc = "ValueError"
  /\ last.submitted = <<>>

\* the campaign lookup of update_bidding_strategy gives no channel type: its
\* own client or its search fails, the stream is empty, the campaign is not
\* found, or the campaign has no advertisingChannelType
ChannelTypeUnobtainable ==
  \/ env.search \in { "fail", "no_client" }
  \/ env.campaign \in { "<absent>", "<not_found>", "<no_batch>" }

\* C21: in every updater operation, when the ads client cannot be obtained
\* the call raises an error and issues no backend query and no mutation; in
\* update_bidding_strategy, when the channel type of the campaign cannot be
\* obtained the call raises before validation, before a mutation is built
\* and before one is submitted.
C21_FailsFastWithoutClientOrChannelType ==
  /\ ( last.tool \in UpdaterTools /\ last.mode = "real" /\ ~env.client )
     => /\ last.outcome = "raise"
        /\ last.exc = "RuntimeError"
        /\ last.clients = 1
        /\ last.queries = 0
        /\ last.submitted = <<>>
  /\ ( /\ RealCallOf("update_bidding_strategy")
       /\ env.client
       /\ ChannelTypeUnobtainable )
     => /\ last.outcome = "raise"
        /\ last.is_valid = <<>>
        /\ last.applied = <<>>
        /\ last.target = <<>>
        /\ last.submitted = <<>>

\* the campaign was found without an advertisingChannelType, and the call
\* raised after its one query
C21_Witness ==
  /\ RealCallOf("update_bidding_strategy")
  /\ env.client
  /\ env.campaign = "<absent>"
  /\ last.queries = 1
  /\ last.outcome = "raise"
  /\ last.exc = "ValueError"
  /\ last.msg = << "Could not determine advertising_channel_type." >>

\* C22: update_campaign_status accepts exactly the status values "ENABLED"
\* and "PAUSED": for any other value it raises a ValueError and never calls
\* mutate_campaigns; for the two accepted values it submits one mutation
\* that sets the status of the campaign to that value.
C22_StatusEnabledOrPausedOnly ==
  ( RealCallOf("update_campaign_status") /\ env.client )
  => IF req.status \in { "ENABLED", "PAUSED" }
     THEN /\ Len(last.submitted) = 1
          /\ last.submitted[1].method = "mutate_campaigns"
          /\ Len(last.submitted[1].operations) = 1
          /\ SubmittedOp.update.resource_name
               = campaign_path(req.customer_id, req.campaign_id)
          /\ "status" \in DOMAIN SubmittedOp.update.top
          /\ SubmittedOp.update.top["status"] = req.status
     ELSE /\ last.outcome = "raise"
          /\ last.exc = "ValueError"
          /\ req.status \in Range(last.msg)
          /\ last.submitted = <<>>

\* the status "REMOVED" was asked for on a working backend and refused
C22_Witness ==
  /\ RealCallOf("update_campaign_status")
  /\ env.client /\ env.backend = "accept"
  /\ req.status = "REMOVED"
  /\ last.outcome = "raise"
  /\ last.exc = "ValueError"
  /\ last.submitted = <<>>

\* C23: in a run started with dry_run = True every per-campaign agent is
\* given the same toolset, that toolset holds no tool that writes to Google
\* Ads, the SA360 sheet or a Firestore document, and no tool call an agent
\* of the run makes changes one of the three.
C23_DryRunChangesNothing ==
  ( args.dry_run /\ trail.agents # <<>> )
  => /\ \A k \in 1..Len(trail.agents) :
          trail.agents[k] = create_agent(args.dry_run).updater_toolset
     /\ \A tool \in create_agent(args.dry_run).tools : Changes(tool) = ""
     /\ trail.changed = {}

\* the criteria of a campaign after the backend applied the operations of
\* one mutate call to the existing ones: those not removed, and those created
CriteriaAfter(existing, operations) ==
  [ kept |-> { c \in Range(existing) :
                 \A i \in 1..Len(operations) :
                   "remove" \in DOMAIN operations[i]
                     => operations[i].remove # c },
    created |-> { operations[i].create :
                    i \in { k \in 1..Len(operations) :
                              "create" \in DOMAIN operations[k] } } ]

\* the criteria asked for: each requested location id under the campaign,
\* with the requested negative flag
RequestedCriteria ==
  { [ parent |-> campaign_path(req.customer_id, req.campaign_id),
      geo_target_constant |-> geo_target_constant_path(req.location_ids[i]),
      negative |-> req.negative ] : i \in 1..Len(req.location_ids) }

\* C24: the operation list update_campaign_geo_targets submits is one remove
\* operation for every LOCATION criterion the call read, followed by one
\* create operation per requested location id; after a successful call the
\* LOCATION criteria of the campaign are exactly the requested locations,
\* each with the requested negative flag.
C24_GeoTargetsReplaced ==
  ( RealCallOf("update_campaign_geo_targets") /\ Succeeded(last) )
  => LET n == Len(env.criteria)
         operations == IF last.submitted = <<>> THEN <<>>
                       ELSE last.submitted[1].operations
         after == CriteriaAfter(env.criteria, operations)
     IN  /\ Len(last.submitted) <= 1
         /\ Len(operations) = n + Len(req.location_ids)
         /\ \A i \in 1..n : operations[i] = [ remove |-> env.criteria[i] ]
         /\ \A i \in 1..Len(req.location_ids) :
              /\ "create" \in DOMAIN operations[n + i]
              /\ operations[n + i].create.geo_target_constant
                   = geo_target_constant_path(req.location_ids[i])
              /\ operations[n + i].create.negative = req.negative
         /\ after.kept = {}
         /\ after.created = RequestedCriteria

\* a campaign with one LOCATION criterion was given two locations: one
\* remove and two create operations were submitted and accepted
C24_Witness ==
  /\ RealCallOf("update_campaign_geo_targets")
  /\ Succeeded(last)
  /\ env.criteria = << "customers/1/criteria/1000" >>
  /\ req.location_ids = << "2826", "2840" >>
  /\ Len(last.submitted) = 1
  /\ Len(last.submitted[1].operations) = 3

\* the positions on the trail at which the run called clear_actions
ClearedAt ==
  { k \in 1..Len(trail.steps) : trail.steps[k] = "clear_actions" }

\* C25: in every execution of run_decision_agent clear_actions is called
\* exactly once, and before every tool invocation (every log_action call)
\* made on behalf of the run.
C25_ClearedOnceBeforeAnyToolCall ==
  /\ Cardinality(ClearedAt) <= 1
  /\ Terminal => Cardinality(ClearedAt) = 1
  /\ \A j \in 1..Len(trail.calls) :
       \E k \in ClearedAt : k < trail.calls[j].at

\* a dry run over a list left by an earlier run ended with two tool calls
\* that logged, both after the one clear_actions call
C25_Witness ==
  /\ Terminal
  /\ args.dry_run
  /\ Cardinality(ClearedAt) = 1
  /\ Len(trail.calls) = 2
  /\ \A j \in 1..2 : trail.calls[j].logged
  /\ Len(actions) = 2

\* C26: when two run_decision_agent invocations for different customers
\* overlap in one process, the actions each run returns and persists in
\* its run record are exactly the actions logged by its own tool
\* invocations: none of the other run's, and all of its own.
C26_OverlappingRunsKeepOwnActions ==
  \A c \in ActingCustomers :
    ( runs[c].pc = "returned" /\ runs[c].campaigns > 0 )
    => /\ runs[c].collected = runs[c].own
       /\ runs[c].persisted = << runs[c].own >>

\* the call update_bidding_strategy makes of the pending request with its
\* strategy string in upper case
UpperCasedCall ==
  update_bidding_strategy([req EXCEPT !.strategy_type = upper(@)], env)

\* C27: in update_bidding_strategy validation and mutation building agree on
\* the strategy type regardless of letter case: for a strategy string that
\* validate_strategy_change accepts, the call ends as the call with the
\* upper-cased string does, building the mutation for that strategy.
C27_CaseInsensitiveStrategyType ==
  ( RealCallOf("update_bidding_strategy") /\ last.is_valid = << TRUE >> )
  => /\ UpperCasedCall.is_valid = << TRUE >>
     /\ last.outcome = UpperCasedCall.outcome
     /\ last.applied = UpperCasedCall.applied
     /\ last.submitted = UpperCasedCall.submitted
     /\ Succeeded(last) = Succeeded(UpperCasedCall)

\* the last call failed because _apply_bidding_strategy_details took its
\* unsupported-strategy-type branch
FailedAsUnsupported ==
  /\ last.applied = << FALSE >>
  /\ req.strategy_type \notin DOMAIN VariantOf
  /\ last.outcome = "raise"
  /\ last.msg = << "Failed to apply bidding strategy details for type: ",
                   req.strategy_type >>

\* C28: the unsupported-strategy-type branch of
\* _apply_bidding_strategy_details is unreachable from
\* update_bidding_strategy: a strategy type that validate_strategy_change
\* allows for the channel type is one the builder recognizes, so a call
\* that passed validation never fails as unsupported.  (Stated for strategy
\* strings in upper case, as the table lists them.)
C28_ValidatedStrategyIsRecognized ==
  ( /\ RealCallOf("update_bidding_strategy")
    /\ last.is_valid = << TRUE >>
    /\ req.strategy_type \in UpperStrategies )
  => /\ req.strategy_type \in DOMAIN VariantOf
     /\ ~FailedAsUnsupported

\* C29: update_portfolio_bidding_strategy never submits a mutation whose
\* update mask is empty: whenever the builder returned true, the mask of
\* the submitted BiddingStrategyOperation holds at least one path.
C29_PortfolioMaskNeverEmpty ==
  ( /\ RealCallOf("update_portfolio_bidding_strategy")
    /\ last.applied = << TRUE >>
    /\ last.submitted # <<>> )
  => /\ Len(last.submitted) = 1
     /\ Len(last.submitted[1].operations) = 1
     /\ SubmittedOp.update_mask # <<>>

\* C30: the update mask update_campaign_status attaches to its
\* CampaignOperation is a deduplicated set of paths: it holds the path
\* "status" exactly once and nothing else.
C30_StatusMaskIsStatusOnce ==
  ( RealCallOf("update_campaign_status") /\ last.submitted # <<>> )
  => /\ Range(SubmittedOp.update_mask) = { "status" }
     /\ Cardinality({ i \in 1..Len(SubmittedOp.update_mask) :
                        SubmittedOp.update_mask[i] = "status" }) = 1

====
